---- MODULE Spec2Model ----
(***************************************************************************)
(* Natural-language-to-spatial-query compiler of globe-view-initiate-3d.   *)
(*                                                                         *)
(*   GeoSpec      query_parser/geocoding.py    geocode_location            *)
(*   AnalyzeSpec  query_parser/tool_router.py  _analyze_query              *)
(*   RouteSpec    query_parser/tool_router.py  route_query, with           *)
(*                query_parser/gis_tools.py    the executor                *)
(*   ParseSpec    query_parser/spacy_parser.py parse_query                 *)
(*   SchemaSpec   query_parser/spacy_parser.py update_dynamic_mappings     *)
(*                                             beside a parse_query        *)
(*   ConvertSpec  query_parser/gis_tools.py    to_geojson                  *)
(*   FetchSpec    query_parser/gis_tools.py,   the requests to the feature *)
(*                main.py                      provider                    *)
(*   ChatSpec     main.py                      /api/chat                   *)
(*   SessionSpec  main.py                      /api/chatbot/query and      *)
(*                                             /api/chatbot/clear          *)
(*   NormalizeSpec query_parser/parser.py      _normalize_query            *)
(*                                                                         *)
(* A text is a sequence of words (the text is its words joined by single   *)
(* blanks).                                                                  *)
(***************************************************************************)
EXTENDS Integers, Sequences, FiniteSets, TLC

VARIABLES
    \* ---- geocode_location (geocoding.py)
    geo_pc,          \* "idle" | "run" | "done"
    location_query,  \* the place text being resolved
    max_retries,     \* the max_retries argument
    search_idx,      \* index into search_queries of the running outer loop
    attempt,         \* the inner loop variable
    calls,           \* the 'q' parameter of every outbound requests.get, in order
    outcome,         \* how the most recent outbound call ended
    rate_delay,      \* seconds slept before the most recent call (line 46)
    backoff,         \* seconds slept after the most recent call (line 80)
    tfail,           \* transport failures of the running reformulation so far
    parse_ended,     \* reformulations that were ended by a parse error
    only_transport,  \* TRUE while every outbound call ended in a transport error
    geo_result,      \* Pending | None | a point (lat, lon)
    \* ---- route_query (tool_router.py) and the executor (gis_tools.py)
    route_pc,        \* "idle" | "geocoding" | "done"
    query_text,      \* the argument of route_query
    tool_call,       \* the ToolCall of _analyze_query, or NoToolCall
    dispatched,      \* the ToolCalls handed to the executor, in order
    provider_calls,  \* requests issued to the feature provider
    escaped,         \* TRUE when an exception left route_query
    result,          \* the GISToolResult returned, or NoResult
    \* ---- parse_query (spacy_parser.py)
    parse_pc,        \* "idle" | "ready" | "done"
    doc,             \* the tokens of the query text
    dataset,         \* the dataset argument
    noun_tags,       \* token positions the tagger labels NOUN or PROPN
    hash_seed,       \* string-hash seed of the running interpreter process
    restarted,       \* TRUE once the second run got a fresh interpreter
    runs,            \* the QueryResult of every finished parse_query, in order
    \* ---- the parser's shared tables and update_dynamic_mappings
    dynamic_dataset_entities,  \* dataset id -> entity types and phrases
    dynamic_field_mappings,    \* dataset id -> entity type -> field mapping
    phrase_matcher,  \* the patterns added to the PhraseMatcher in use
    update_pc,       \* "idle" | "entities" | "fields" | "clear" | "add" | "done"
    datasets,        \* the argument of update_dynamic_mappings
    update_idx,      \* entries of datasets the loop of line 760 has finished
    parse_entities,  \* the entities a running parse_query has extracted
    seen_matcher,    \* the phrase_matcher that parse_query called
    seen_mappings,   \* the dynamic_field_mappings that parse_query read
    \* ---- to_geojson (gis_tools.py)
    convert_pc,       \* "idle" | "called" | "done"
    convert_features, \* the argument of to_geojson
    convert_result,   \* what to_geojson returned, or None
    \* ---- the requests to the feature provider (gis_tools.py, main.py)
    fetch_pc,        \* "idle" | "request" | "done"
    fetch_site,      \* the function that was called
    fetch_args,      \* its arguments that matter
    fetch_outcomes,  \* how each requests.get of the call ended, in order
    fetch_sleeps,    \* the seconds of each time.sleep of the call, in order
    fetch_result,    \* what the call ended with, or None
    \* ---- the chat endpoints (main.py)
    conversation_memory,  \* session id -> the session's context
    chat_history,    \* session id -> every message appended since creation
    chat_before,     \* conversation_memory before the most recent request
    chat_call,       \* the most recent request, or None
    chat_response,   \* the answer to the most recent request, or None
    llm_failures,    \* requests the language model did not answer with a text
    \* ---- _normalize_query (parser.py)
    norm_pc,         \* "idle" | "called" | "once" | "twice"
    norm_query,      \* the argument, character by character
    norm_once,       \* what _normalize_query returned for it
    norm_twice       \* what _normalize_query returned for norm_once

geoVars == <<geo_pc, location_query, max_retries, search_idx, attempt, calls,
             outcome, rate_delay, backoff, tfail, parse_ended, only_transport,
             geo_result>>
routeVars == <<route_pc, query_text, tool_call, dispatched, provider_calls,
               escaped, result>>
parseVars == <<parse_pc, doc, dataset, noun_tags, hash_seed, restarted, runs>>
schemaVars == <<dynamic_dataset_entities, dynamic_field_mappings,
                phrase_matcher, update_pc, datasets, update_idx,
                parse_entities,
                seen_matcher, seen_mappings>>
convertVars == <<convert_pc, convert_features, convert_result>>
fetchVars == <<fetch_pc, fetch_site, fetch_args, fetch_outcomes, fetch_sleeps,
               fetch_result>>
chatVars == <<conversation_memory, chat_history, chat_before, chat_call,
              chat_response, llm_failures>>
normVars == <<norm_pc, norm_query, norm_once, norm_twice>>
vars == <<geoVars, routeVars, parseVars, schemaVars, convertVars, fetchVars,
          chatVars, normVars>>

(***************************************************************************)
(* Bounds of the model.                                                    *)
(***************************************************************************)
MaxRetries == 3
MaxCandidates == 2

(***************************************************************************)
(* Generic helpers.                                                        *)
(***************************************************************************)
Range(s) == {s[i] : i \in DOMAIN s}

SeqsUpTo(S, n) == UNION {[1..k -> S] : k \in 0..n}

RECURSIVE Join(_, _)
Join(parts, sep) ==
    IF parts = <<>> THEN ""
    ELSE IF Len(parts) = 1 THEN parts[1]
    ELSE parts[1] \o sep \o Join(Tail(parts), sep)

Count(s, x) == Cardinality({i \in DOMAIN s : s[i] = x})

(***************************************************************************)
(* geocode_location                                                        *)
(***************************************************************************)
Places == {"dubai", "sacramento"}
\* Python's None where an object is expected, and the not-yet-returned result.
None == [none |-> TRUE]
Pending == [pending |-> TRUE]
Points == { [lat |-> 25, lon |-> 55], [lat |-> 38, lon |-> -121] }

\* One candidate of the provider's answer: whether its display_name/address
\* names the preferred region, and its lat/lon (None when the key is
\* absent or its text is no number).
Candidates == [region : BOOLEAN, latlon : Points \cup {None}]

\* The JSON list one requests.get can bring when no transport error occurs.
Responses == SeqsUpTo(Candidates, MaxCandidates)

search_queriesMutant(place) ==
    << place \o ", CA, USA",
       place \o ", California, USA",
       place \o ", United States",
       place >>
search_queries(place) ==
    << place \o ", California, USA",
       place \o ", CA, USA",
       place \o ", United States",
       place >>

NumQueries == 4

\* Lines 53-73: the first candidate of the preferred region, else the first
\* candidate; float(result['lat']) raises on a missing or unparsable value.
PickCandidate(results) ==
    LET pref == {i \in DOMAIN results : results[i].region}
        first == CHOOSE i \in pref : \A j \in pref : i <= j
    IN  IF pref /= {} THEN results[first].latlon ELSE results[1].latlon

\* Line 79: whether a transport failure at this attempt is retried.
RetryAfterTransportMutant(att, retries) == att < retries - 2
RetryAfterTransport(att, retries) == att < retries - 1

\* Line 80: the exponential backoff.
BackoffSecondsMutant(att) == 2 * att
BackoffSeconds(att) == 2 ^ att

\* Line 45-46: the rate-limit delay before every attempt but the first.
RateDelay(att) == IF att > 0 THEN 1 ELSE 0

\* Line 40: whether the inner loop has another iteration after this attempt.
HasNextAttempt(att, retries) == att + 1 < retries

\* The outer loop moves on to the next search query, or falls out of it to
\* line 88-89 and returns None.
NextSearchQuery ==
    IF search_idx < NumQueries
    THEN /\ search_idx' = search_idx + 1
         /\ attempt' = 0
         /\ tfail' = 0
         /\ geo_pc' = "run"
         /\ geo_result' = geo_result
    ELSE /\ UNCHANGED <<search_idx, attempt, tfail>>
         /\ geo_pc' = "done"
         /\ geo_result' = None

\* Line 48: the outbound call of the running attempt.
OutboundCall ==
    /\ calls' = Append(calls, search_queries(location_query)[search_idx])
    /\ rate_delay' = RateDelay(attempt)

\* The call geocode_location(place, retries): lines 8-40.
GeoEnter(place, retries) ==
    /\ location_query' = place
    /\ max_retries' = retries
    /\ search_idx' = 1
    /\ attempt' = 0
    /\ calls' = <<>>
    /\ outcome' = "none"
    /\ rate_delay' = 0
    /\ backoff' = 0
    /\ tfail' = 0
    /\ parse_ended' = {}
    /\ only_transport' = TRUE
    /\ IF retries > 0
       THEN geo_pc' = "run" /\ geo_result' = Pending
       ELSE geo_pc' = "done" /\ geo_result' = None

\* Lines 77-83: requests.get or raise_for_status raises RequestException.
GeoTransportError ==
    /\ geo_pc = "run"
    /\ OutboundCall
    /\ outcome' = "transport"
    /\ UNCHANGED <<location_query, max_retries, parse_ended, only_transport>>
    /\ IF RetryAfterTransport(attempt, max_retries)
       THEN /\ backoff' = BackoffSeconds(attempt)
            /\ attempt' = attempt + 1
            /\ tfail' = tfail + 1
            /\ UNCHANGED <<search_idx, geo_pc, geo_result>>
       ELSE /\ backoff' = 0
            /\ NextSearchQuery

\* Lines 74-75: an empty candidate list; the inner loop goes on.
GeoNoResults ==
    /\ geo_pc = "run"
    /\ OutboundCall
    /\ outcome' = "empty"
    /\ backoff' = 0
    /\ only_transport' = FALSE
    /\ UNCHANGED <<location_query, max_retries, parse_ended>>
    /\ IF HasNextAttempt(attempt, max_retries)
       THEN /\ attempt' = attempt + 1
            /\ UNCHANGED <<search_idx, tfail, geo_pc, geo_result>>
       ELSE NextSearchQuery

\* Lines 84-86: the chosen candidate has no usable lat/lon.
GeoParseError ==
    /\ geo_pc = "run"
    /\ \E results \in Responses \ {<<>>} :
          PickCandidate(results) = None
    /\ OutboundCall
    /\ outcome' = "parse"
    /\ backoff' = 0
    /\ parse_ended' = parse_ended \cup {search_idx}
    /\ only_transport' = FALSE
    /\ UNCHANGED <<location_query, max_retries>>
    /\ NextSearchQuery

\* Lines 53-73: a candidate with coordinates is returned.
GeoFound ==
    /\ geo_pc = "run"
    /\ \E results \in Responses \ {<<>>} :
          /\ PickCandidate(results) /= None
          /\ geo_result' = PickCandidate(results)
    /\ OutboundCall
    /\ outcome' = "ok"
    /\ backoff' = 0
    /\ geo_pc' = "done"
    /\ only_transport' = FALSE
    /\ UNCHANGED <<location_query, max_retries, search_idx, attempt, tfail,
                   parse_ended>>

GeoStep == GeoTransportError \/ GeoNoResults \/ GeoParseError \/ GeoFound

GeoIdle ==
    /\ geo_pc = "idle"
    /\ location_query = ""
    /\ max_retries = 0
    /\ search_idx = 1
    /\ attempt = 0
    /\ calls = <<>>
    /\ outcome = "none"
    /\ rate_delay = 0
    /\ backoff = 0
    /\ tfail = 0
    /\ parse_ended = {}
    /\ only_transport = TRUE
    /\ geo_result = Pending


(***************************************************************************)
(* Words.  Python's substring test and the regular expressions of the      *)
(* router look inside words, so the prefix, suffix and substring relations *)
(* between the words of the vocabulary and the keys the code searches for  *)
(* are tabulated here; every other pair of distinct words is unrelated.    *)
(***************************************************************************)
Vocabulary ==
    { "find", "show", "list", "display", "all",
      "near", "around", "close", "to", "within", "of",
      "where", "with", "having", "installed", "built", "after", "before",
      "since", "until", "in", "at", "on", "along", "zip", "code", "city",
      "parks", "park", "parking", "car", "green", "space", "bus", "stops",
      "buildings", "mosques", "roads", "street", "ev", "charging",
      "active", "fast",
      "dubai", "abu", "dhabi", "sacramento",
      "0", "3", "5", "2020", "91941", "km", "miles",
      "xyz123", "unintelligible", "gas", "valves", "water", "or",
      "Find", "Dubai", "EV", "Sacramento" }

\* str.lower() on one word.
Lower(w) ==
    CASE w = "Find" -> "find"
      [] w = "Dubai" -> "dubai"
      [] w = "EV" -> "ev"
      [] w = "Sacramento" -> "sacramento"
      [] w = "Abu" -> "abu"
      [] w = "Dhabi" -> "dhabi"
      [] OTHER -> w

\* <<w, k>>: word w starts with the key k, and is not k.
PrefixPairs ==
    { <<"parks", "park">>, <<"parking", "park">>, <<"buildings", "building">>,
      <<"mosques", "mosque">>, <<"roads", "road">>, <<"stops", "stop">>,
      <<"miles", "mile">>, <<"charging", "charg">>, <<"within", "with">> }

\* <<w, k>>: word w ends with the key k, and is not k.
SuffixPairs == { <<"within", "in">>, <<"show", "how">> }

\* No word of the vocabulary holds a key strictly inside it.
StartsWith(w, k) == w = k \/ <<w, k>> \in PrefixPairs
EndsWith(w, k) == w = k \/ <<w, k>> \in SuffixPairs
Contains(w, k) == StartsWith(w, k) \/ EndsWith(w, k)

\* The digits a word starts with and the digits it ends with ("" when none).
LeadingDigits(w) ==
    IF w \in {"0", "3", "5", "2020", "91941"} THEN w ELSE ""
TrailingDigits(w) ==
    IF w \in {"0", "3", "5", "2020", "91941"} THEN w
    ELSE IF w = "xyz123" THEN "123" ELSE ""

\* float() of a run of digits.
DigitsValue(d) ==
    CASE d = "0" -> 0
      [] d = "3" -> 3
      [] d = "5" -> 5
      [] d = "123" -> 123
      [] d = "2020" -> 2020
      [] d = "91941" -> 91941

\* The first n characters of a run of at least n digits.
FirstDigits(d, n) ==
    IF n = 4 /\ d = "91941" THEN "9194" ELSE d

\* Whether a key (one word, or two words separated by a blank) occurs in a
\* text: Python's  key in text  for the text's words joined by blanks.
TextHas1(text, k) == \E i \in DOMAIN text : Contains(text[i], k)
TextHas2(text, k1, k2) ==
    \E i \in DOMAIN text :
        /\ i + 1 <= Len(text)
        /\ EndsWith(text[i], k1)
        /\ StartsWith(text[i + 1], k2)
TextHas(text, key) ==
    IF Len(key) = 1 THEN TextHas1(text, key[1])
    ELSE TextHas2(text, key[1], key[2])

Words(text) == Join(text, " ")

MinOf(S) == CHOOSE x \in S : \A y \in S : x <= y


(***************************************************************************)
(* IntelligentToolRouter: the templates of _analyze_query.                 *)
(* re.search takes the leftmost start, a lazy group its shortest text.     *)
(***************************************************************************)
NoMatch == [hit |-> FALSE, groups |-> <<>>]
Hit(gs) == [hit |-> TRUE, groups |-> gs]

\* route_query line 103: query_text.lower().strip()
Normalize(text) == [i \in DOMAIN text |-> Lower(text[i])]

\* The last word of the keyword that starts at word j (0: none starts there).
\* (?:near|around|close to)
ProxEnd(q, j) ==
    IF q[j] \in {"near", "around"} THEN j
    ELSE IF q[j] = "close" /\ j < Len(q) /\ q[j + 1] = "to" THEN j + 1
    ELSE 0

\* (?:near|around|close to|within.+?of)
ProxOrWithinEnd(q, j) ==
    LET ofs == {m \in (j + 1)..Len(q) : q[m] = "of"}
    IN  IF ProxEnd(q, j) > 0 THEN ProxEnd(q, j)
        ELSE IF q[j] = "within" /\ ofs /= {} THEN MinOf(ofs)
        ELSE 0

\* (?:where|with|having)
WhereEnd(q, j) == IF q[j] \in {"where", "with", "having"} THEN j ELSE 0

\* (?:in|at)
InAtEnd(q, j) == IF q[j] \in {"in", "at"} THEN j ELSE 0

\* The keyword alternation of a template, by name.
KeywordEnd(keyword, q, j) ==
    CASE keyword = "near" -> ProxEnd(q, j)
      [] keyword = "near_or_within" -> ProxOrWithinEnd(q, j)
      [] keyword = "where" -> WhereEnd(q, j)
      [] keyword = "in_at" -> InAtEnd(q, j)

\* "<verb> (.+?) <keyword> (.+?)(?:\s|$)"
VerbTemplate(q, verbs, keyword) ==
    LET KwEnd(t, j) == KeywordEnd(keyword, t, j)
        ok(i, j) == /\ \E v \in verbs : EndsWith(q[i], v)
                    /\ j >= i + 2
                    /\ KwEnd(q, j) > 0
                    /\ KwEnd(q, j) < Len(q)
        starts == {i \in DOMAIN q : \E j \in DOMAIN q : ok(i, j)}
        i0 == MinOf(starts)
        j0 == MinOf({j \in DOMAIN q : ok(i0, j)})
    IN  IF starts = {} THEN NoMatch
        ELSE Hit(<< SubSeq(q, i0 + 1, j0 - 1), <<q[KwEnd(q, j0) + 1]>> >>)

\* "(.+?) <keyword> (.+?)(?:\s|$)"
LeadTemplate(q, keyword) ==
    LET KwEnd(t, j) == KeywordEnd(keyword, t, j)
        ok(j) == j >= 2 /\ KwEnd(q, j) > 0 /\ KwEnd(q, j) < Len(q)
        js == {j \in DOMAIN q : ok(j)}
        j0 == MinOf(js)
    IN  IF js = {} THEN NoMatch
        ELSE Hit(<< SubSeq(q, 1, j0 - 1), <<q[KwEnd(q, j0) + 1]>> >>)

\* Line 125-128.
Spatial1(q) == VerbTemplate(q, {"find"}, "near")
Spatial2(q) == VerbTemplate(q, {"show", "list"}, "near")
Spatial3(q) == LeadTemplate(q, "near_or_within")
\* "find (.+?) within (.+?) of (.+?)(?:\s|$)"
Spatial4(q) ==
    LET ok(i, j, m) == /\ EndsWith(q[i], "find")
                       /\ j >= i + 2 /\ q[j] = "within"
                       /\ m >= j + 2 /\ q[m] = "of"
                       /\ m < Len(q)
        starts == {i \in DOMAIN q : \E j, m \in DOMAIN q : ok(i, j, m)}
        i0 == MinOf(starts)
        j0 == MinOf({j \in DOMAIN q : \E m \in DOMAIN q : ok(i0, j, m)})
        m0 == MinOf({m \in DOMAIN q : ok(i0, j0, m)})
    IN  IF starts = {} THEN NoMatch
        ELSE Hit(<< SubSeq(q, i0 + 1, j0 - 1), SubSeq(q, j0 + 1, m0 - 1),
                    <<q[m0 + 1]>> >>)

\* Line 138-142.
Attribute1(q) == VerbTemplate(q, {"find"}, "where")
Attribute2(q) == VerbTemplate(q, {"show", "list"}, "where")
\* "(.+?) (?:installed|built) (?:after|before|in) (\d{4})"
Attribute3(q) ==
    LET ok(j) == /\ j >= 2 /\ j + 2 <= Len(q)
                 /\ q[j] \in {"installed", "built"}
                 /\ q[j + 1] \in {"after", "before", "in"}
                 /\ Len(LeadingDigits(q[j + 2])) >= 4
        js == {j \in DOMAIN q : ok(j)}
        j0 == MinOf(js)
    IN  IF js = {} THEN NoMatch
        ELSE Hit(<< SubSeq(q, 1, j0 - 1),
                    <<FirstDigits(LeadingDigits(q[j0 + 2]), 4)>> >>)
\* "(.+?) in (?:zip|ZIP) (?:code )?([\d]{5})"
ZipDigitsAt(q, j) ==
    IF j + 1 <= Len(q) /\ q[j] = "code" /\ Len(LeadingDigits(q[j + 1])) >= 5
    THEN j + 1
    ELSE IF j <= Len(q) /\ Len(LeadingDigits(q[j])) >= 5 THEN j
    ELSE 0
Attribute4(q) ==
    LET ok(j) == /\ j >= 2 /\ j + 2 <= Len(q)
                 /\ q[j] = "in" /\ q[j + 1] = "zip"
                 /\ ZipDigitsAt(q, j + 2) > 0
        js == {j \in DOMAIN q : ok(j)}
        j0 == MinOf(js)
    IN  IF js = {} THEN NoMatch
        ELSE Hit(<< SubSeq(q, 1, j0 - 1),
                    <<FirstDigits(LeadingDigits(q[ZipDigitsAt(q, j0 + 2)]), 5)>> >>)
\* "(.+?) on (.+?) (?:street|avenue|road|drive|way)"
StreetWord(w, kinds) == \E k \in kinds : StartsWith(w, k)
RouteStreetKinds == {"street", "avenue", "road", "drive", "way"}
Attribute5(q) ==
    LET ok(j, m) == /\ j >= 2 /\ q[j] = "on"
                    /\ m >= j + 2 /\ StreetWord(q[m], RouteStreetKinds)
        js == {j \in DOMAIN q : \E m \in DOMAIN q : ok(j, m)}
        j0 == MinOf(js)
        m0 == MinOf({m \in DOMAIN q : ok(j0, m)})
    IN  IF js = {} THEN NoMatch
        ELSE Hit(<< SubSeq(q, 1, j0 - 1), SubSeq(q, j0 + 1, m0 - 1) >>)

\* Line 152-153.
\* "(?:find|show|list|display) (?:all )?(.+?)(?:\s|$)"
Simple1(q) ==
    LET starts == {i \in DOMAIN q :
                      /\ \E v \in {"find", "show", "list", "display"} :
                            EndsWith(q[i], v)
                      /\ i < Len(q)}
        i0 == MinOf(starts)
    IN  IF starts = {} THEN NoMatch
        ELSE IF q[i0 + 1] = "all" /\ i0 + 2 <= Len(q)
             THEN Hit(<< <<q[i0 + 2]>> >>)
             ELSE Hit(<< <<q[i0 + 1]>> >>)
Simple2(q) == LeadTemplate(q, "in_at")

\* for pattern in patterns: match = re.search(...); if match: ...
FirstHit(ms) ==
    LET hits == {i \in DOMAIN ms : ms[i].hit}
    IN  IF hits = {} THEN NoMatch ELSE ms[MinOf(hits)]

SpatialMatch(q) == FirstHit(<<Spatial1(q), Spatial2(q), Spatial3(q), Spatial4(q)>>)
AttributeMatch(q) ==
    FirstHit(<<Attribute1(q), Attribute2(q), Attribute3(q), Attribute4(q),
               Attribute5(q)>>)
SimpleMatch(q) == FirstHit(<<Simple1(q), Simple2(q)>>)


(***************************************************************************)
(* IntelligentToolRouter: the handlers.                                    *)
(***************************************************************************)
\* Line 38-85, in the dictionary's order: key (its words), dataset.
infrastructure_mappings ==
    << <<<<"bus">>, "bus_stops_real">>,
       <<<<"bus", "stop">>, "bus_stops_real">>,
       <<<<"bus", "station">>, "bus_stops_real">>,
       <<<<"public", "transport">>, "bus_stops_real">>,
       <<<<"transportation">>, "bus_stops_real">>,
       <<<<"transport">>, "bus_stops_real">>,
       <<<<"transit">>, "bus_stops_real">>,
       <<<<"mosque">>, "mosques_real">>,
       <<<<"mosques">>, "mosques_real">>,
       <<<<"islamic">>, "mosques_real">>,
       <<<<"prayer">>, "mosques_real">>,
       <<<<"worship">>, "mosques_real">>,
       <<<<"religious">>, "mosques_real">>,
       <<<<"park">>, "parks_real">>,
       <<<<"parks">>, "parks_real">>,
       <<<<"green", "space">>, "parks_real">>,
       <<<<"recreation">>, "parks_real">>,
       <<<<"recreational">>, "parks_real">>,
       <<<<"garden">>, "parks_real">>,
       <<<<"parking">>, "parking_real">>,
       <<<<"parking", "lot">>, "parking_real">>,
       <<<<"parking", "area">>, "parking_real">>,
       <<<<"parking", "areas">>, "parking_real">>,
       <<<<"car", "park">>, "parking_real">>,
       <<<<"building">>, "buildings_real">>,
       <<<<"buildings">>, "buildings_real">>,
       <<<<"structure">>, "buildings_real">>,
       <<<<"landmark">>, "buildings_real">>,
       <<<<"architecture">>, "buildings_real">>,
       <<<<"road">>, "roads_real">>,
       <<<<"roads">>, "roads_real">>,
       <<<<"street">>, "roads_real">>,
       <<<<"streets">>, "roads_real">>,
       <<<<"highway">>, "roads_real">>,
       <<<<"avenue">>, "roads_real">> >>

\* Line 282-298: the longest key that occurs in the text; the stable sort
\* keeps the dictionary's order among keys of one length.
_map_infrastructure_type(text) ==
    LET M == infrastructure_mappings
        keylen(i) == Len(Words(M[i][1]))
        matches == {i \in DOMAIN M : TextHas(text, M[i][1])}
        best == CHOOSE i \in matches :
                    \A k \in matches :
                        keylen(k) < keylen(i) \/ (keylen(k) = keylen(i) /\ i <= k)
    IN  IF matches = {} THEN "buildings_real" ELSE M[best][2]

\* Line 300-303.
_get_layer_id(text, infrastructure_type) == "None"

\* Line 261-280.  A distance template: [within] <number> <unit>.
UnitWord(w, units) == \E u \in units : StartsWith(w, u)
KmUnits == {"km", "kilometer"}
MileUnits == {"mile"}
DistanceHits(q, needWithin, units) ==
    {i \in DOMAIN q :
        /\ i < Len(q)
        /\ UnitWord(q[i + 1], units)
        /\ IF needWithin
           THEN /\ LeadingDigits(q[i]) = q[i]
                /\ i > 1
                /\ EndsWith(q[i - 1], "within")
           ELSE TrailingDigits(q[i]) /= ""}
\* A float number of kilometres n * f is kept as the pair <<n, f>>, f in
\* 1/100000: 100000 for a number of kilometres, 160934 for miles (line 277).
KmFactor == 100000
MileFactor == 160934
Kilometres(n, f) == IF n = 0 THEN <<0, KmFactor>> ELSE <<n, f>>
DefaultRadius == Kilometres(2, KmFactor)
_extract_distance(q) ==
    LET d1 == DistanceHits(q, TRUE, KmUnits)
        d2 == DistanceHits(q, FALSE, KmUnits)
        d3 == DistanceHits(q, TRUE, MileUnits)
        d4 == DistanceHits(q, FALSE, MileUnits)
        num(S) == DigitsValue(TrailingDigits(q[MinOf(S)]))
    IN  IF d1 /= {} THEN Kilometres(num(d1), KmFactor)
        ELSE IF d2 /= {} THEN Kilometres(num(d2), KmFactor)
        ELSE IF d3 /= {} THEN Kilometres(num(d3), MileFactor)
        ELSE IF d4 /= {} THEN Kilometres(num(d4), MileFactor)
        ELSE DefaultRadius

\* Line 305-362.
CityStopWords == {"the", "a", "an", "and", "or", "with", "by"}
FilterStreetKinds ==
    {"street", "avenue", "road", "drive", "way", "blvd", "boulevard"}
\* "in (.+?) city", then "in (.+?)(?:\s|$)": the first template that matches.
CityFilter(q) ==
    LET ok1(i, m) == /\ EndsWith(q[i], "in")
                     /\ m >= i + 2 /\ StartsWith(q[m], "city")
        s1 == {i \in DOMAIN q : \E m \in DOMAIN q : ok1(i, m)}
        i1 == MinOf(s1)
        m1 == MinOf({m \in DOMAIN q : ok1(i1, m)})
        s2 == {i \in DOMAIN q : EndsWith(q[i], "in") /\ i < Len(q)}
        city == IF s1 /= {} THEN Words(SubSeq(q, i1 + 1, m1 - 1))
                ELSE q[MinOf(s2) + 1]
    IN  IF s1 = {} /\ s2 = {} THEN <<>>
        ELSE IF city \in CityStopWords THEN <<>>
        ELSE << "City='" \o city \o "'" >>
\* "(?:zip|ZIP) (?:code )?(\d{5})"
ZipFilter(q) ==
    LET s == {i \in DOMAIN q : EndsWith(q[i], "zip") /\ ZipDigitsAt(q, i + 1) > 0}
        i0 == MinOf(s)
    IN  IF s = {} THEN <<>>
        ELSE << "ZIP='"
                \o FirstDigits(LeadingDigits(q[ZipDigitsAt(q, i0 + 1)]), 5)
                \o "'" >>
\* "(?:installed|built) <word> (\d{4})" for each of the three word lists.
DateHits(q, words) ==
    {i \in DOMAIN q :
        /\ i + 2 <= Len(q)
        /\ \E v \in {"installed", "built"} : EndsWith(q[i], v)
        /\ q[i + 1] \in words
        /\ Len(LeadingDigits(q[i + 2])) >= 4}
DateFilter(q) ==
    LET a == DateHits(q, {"after", "since"})
        b == DateHits(q, {"before", "until"})
        c == DateHits(q, {"in"})
        year(S) == FirstDigits(LeadingDigits(q[MinOf(S) + 2]), 4)
    IN  IF a /= {} THEN << "InstallYear>" \o year(a) >>
        ELSE IF b /= {} THEN << "InstallYear<" \o year(b) >>
        ELSE IF c /= {} THEN << "InstallYear=" \o year(c) >>
        ELSE <<>>
\* "on (.+?) (?:street|...)", then "along (.+?) (?:street|...)".
StreetHits(q, lead) ==
    {i \in DOMAIN q :
        /\ EndsWith(q[i], lead)
        /\ \E m \in DOMAIN q : m >= i + 2 /\ StreetWord(q[m], FilterStreetKinds)}
StreetFilter(q) ==
    LET a == StreetHits(q, "on")
        b == StreetHits(q, "along")
        i0 == IF a /= {} THEN MinOf(a) ELSE MinOf(b)
        m0 == MinOf({m \in DOMAIN q :
                        m >= i0 + 2 /\ StreetWord(q[m], FilterStreetKinds)})
    IN  IF a = {} /\ b = {} THEN <<>>
        ELSE << "Street LIKE '%" \o Words(SubSeq(q, i0 + 1, m0 - 1)) \o "%'" >>
_extract_attribute_filters(q) ==
    LET conditions == CityFilter(q) \o ZipFilter(q) \o DateFilter(q)
                      \o StreetFilter(q)
    IN  IF conditions = <<>> THEN "None" ELSE Join(conditions, " AND ")

\* Line 364-384.
_build_where_conditions(condition_text, q) ==
    LET filters == _extract_attribute_filters(q)
        base == IF filters /= "None" THEN <<filters>> ELSE <<>>
        kind == IF TextHas1(condition_text, "fast")
                   /\ TextHas1(condition_text, "charg")
                THEN <<"ChargerType='Fast'">>
                ELSE IF TextHas2(condition_text, "level", "2")
                     THEN <<"ChargerType='Level 2'">>
                     ELSE <<>>
        status == IF TextHas1(condition_text, "active")
                     \/ TextHas1(condition_text, "operational")
                  THEN <<"Status='Active'">>
                  ELSE <<>>
        conditions == base \o kind \o status
    IN  IF conditions = <<>> THEN "1=1" ELSE Join(conditions, " AND ")

NoToolCall == [tool_name |-> "None"]

\* Line 163-198.
_handle_spatial_query(m, q) ==
    LET infrastructure_text == m.groups[1]
        location_text == IF Len(m.groups) >= 2 THEN Words(m.groups[2])
                         ELSE "unknown location"
        infrastructure_type == _map_infrastructure_type(infrastructure_text)
    IN  [ tool_name |-> "find_infrastructure_near",
          args |-> [ place |-> location_text,
                     infrastructure_type |-> infrastructure_type,
                     radius_km |-> _extract_distance(q),
                     layer_id |-> _get_layer_id(infrastructure_text,
                                                infrastructure_type),
                     additional_filters |-> _extract_attribute_filters(q) ],
          confidence |-> 90 ]

\* Line 200-221.
_handle_attribute_query(m, q) ==
    LET infrastructure_text == m.groups[1]
        condition_text == IF Len(m.groups) >= 2 THEN m.groups[2] ELSE <<>>
        infrastructure_type == _map_infrastructure_type(infrastructure_text)
    IN  [ tool_name |-> "find_infrastructure_by_attributes",
          args |-> [ infrastructure_type |-> infrastructure_type,
                     where_conditions |->
                         _build_where_conditions(condition_text, q),
                     layer_id |-> _get_layer_id(infrastructure_text,
                                                infrastructure_type) ],
          confidence |-> 85 ]

\* Line 223-259.
SimpleRadius == Kilometres(5, KmFactor)
SimpleMaxFeatures == 100
_handle_simple_query(m, q) ==
    LET infrastructure_text == m.groups[1]
        infrastructure_type == _map_infrastructure_type(infrastructure_text)
        layer_id == _get_layer_id(infrastructure_text, infrastructure_type)
        filters == _extract_attribute_filters(q)
    IN  IF Len(m.groups) >= 2 /\ Words(m.groups[2]) /= ""
        THEN [ tool_name |-> "find_infrastructure_near",
               args |-> [ place |-> Words(m.groups[2]),
                          infrastructure_type |-> infrastructure_type,
                          radius_km |-> SimpleRadius,
                          layer_id |-> layer_id ],
               confidence |-> 80 ]
        ELSE [ tool_name |-> "find_infrastructure_by_attributes",
               args |-> [ infrastructure_type |-> infrastructure_type,
                          where_conditions |->
                              IF filters /= "None" THEN filters ELSE "1=1",
                          layer_id |-> layer_id,
                          max_features |-> SimpleMaxFeatures ],
               confidence |-> 70 ]

\* Line 117-161: the first family with a matching template decides.
_analyze_queryMutant(q) ==
    IF AttributeMatch(q).hit THEN _handle_attribute_query(AttributeMatch(q), q)
    ELSE IF SpatialMatch(q).hit THEN _handle_spatial_query(SpatialMatch(q), q)
    ELSE IF SimpleMatch(q).hit THEN _handle_simple_query(SimpleMatch(q), q)
    ELSE NoToolCall
_analyze_query(q) ==
    IF SpatialMatch(q).hit THEN _handle_spatial_query(SpatialMatch(q), q)
    ELSE IF AttributeMatch(q).hit
         THEN _handle_attribute_query(AttributeMatch(q), q)
    ELSE IF SimpleMatch(q).hit THEN _handle_simple_query(SimpleMatch(q), q)
    ELSE NoToolCall


(***************************************************************************)
(* EnhancedGISTools: the executor.                                         *)
(***************************************************************************)
\* Line 40-96.
service_configs ==
    [ bus_stops_real |->
        [ name |-> "Abu Dhabi Bus Stops", file |-> "bus_stops_query.geojson",
          geometry_type |-> "Point", category |-> "Transportation",
          features |-> 76, frontend_only |-> TRUE ],
      mosques_real |->
        [ name |-> "Abu Dhabi Mosques", file |-> "mosques_query.geojson",
          geometry_type |-> "Polygon", category |-> "Religious",
          features |-> 35, frontend_only |-> TRUE ],
      parks_real |->
        [ name |-> "Abu Dhabi Parks", file |-> "Parks_In_Bbox.geojson",
          geometry_type |-> "Polygon", category |-> "Recreation",
          features |-> 15, frontend_only |-> TRUE ],
      parking_real |->
        [ name |-> "Abu Dhabi Parking", file |-> "Parking_Areas.geojson",
          geometry_type |-> "Polygon", category |-> "Infrastructure",
          features |-> 91, frontend_only |-> TRUE ],
      buildings_real |->
        [ name |-> "Abu Dhabi Buildings", file |-> "BuildingStructures.geojson",
          geometry_type |-> "Polygon", category |-> "Urban",
          features |-> 1398, frontend_only |-> TRUE ],
      roads_real |->
        [ name |-> "Abu Dhabi Roads", file |-> "Roads_Query.geojson",
          geometry_type |-> "Polyline", category |-> "Transportation",
          features |-> 0, frontend_only |-> TRUE ] ]

\* dict.get(key, default) and  key in dict  on a record.
HasKey(d, k) == k \in DOMAIN d
GetOr(d, k, default) == IF k \in DOMAIN d THEN d[k] ELSE default

\* Line 19-26: the dataclass and its defaults.
GISToolResult(text, geojson, center, metadata, statistics) ==
    [ text |-> text, geojson |-> geojson, center |-> center,
      metadata |-> metadata, statistics |-> statistics ]
NoResult == [text |-> <<>>]

\* What a function call ends with: a returned value or a raised exception.
Return(v) == [raised |-> FALSE, value |-> v]
Raise(kind, message) == [raised |-> TRUE, kind |-> kind, message |-> message]

\* The features one answer of the feature provider can hold.
FeaturePool ==
    { [ geometry |-> [x |-> 10, y |-> 20], attributes |-> [OBJECTID |-> 1] ],
      [ geometry |-> [paths |-> << <<1, 2>> >>], attributes |-> [OBJECTID |-> 2] ],
      [ geometry |-> [rings |-> << <<0, 1, 0>> >>], attributes |-> [OBJECTID |-> 3] ] }
MaxFeatures == 1

\* What one request to the feature provider can bring: a transport error,
\* an HTTP error status, a body with a structured error, a body with features.
ProviderResponses ==
    [kind : {"transport", "http_error", "error_body"}, features : {<<>>}]
        \cup [kind : {"ok"}, features : SeqsUpTo(FeaturePool, MaxFeatures)]

\* Line 180-220.  An absent dictionary reads as the empty one, [none |-> TRUE].
feature_to_geojsonMutant(feature) ==
    LET geometry == GetOr(feature, "geometry", [none |-> TRUE])
    IN  [ type |-> "Feature",
          geometry |->
              IF HasKey(geometry, "x") /\ HasKey(geometry, "y")
              THEN [type |-> "Point", coordinates |-> <<geometry.x, geometry.y>>]
              ELSE IF HasKey(geometry, "paths")
              THEN [type |-> "LineString", coordinates |-> geometry.paths]
              ELSE IF HasKey(geometry, "rings")
              THEN [type |-> "Polygon", coordinates |-> geometry.rings]
              ELSE geometry,
          properties |-> GetOr(feature, "attributes", [none |-> TRUE]) ]
feature_to_geojson(feature) ==
    LET geometry == GetOr(feature, "geometry", [none |-> TRUE])
        geojson_geom ==
            IF HasKey(geometry, "x") /\ HasKey(geometry, "y")
            THEN [type |-> "Point", coordinates |-> <<geometry.x, geometry.y>>]
            ELSE IF HasKey(geometry, "paths")
            THEN [ type |-> "LineString",
                   coordinates |-> IF geometry.paths /= <<>>
                                   THEN geometry.paths[1] ELSE <<>> ]
            ELSE IF HasKey(geometry, "rings")
            THEN [type |-> "Polygon", coordinates |-> geometry.rings]
            ELSE geometry
    IN  [ type |-> "Feature", geometry |-> geojson_geom,
          properties |-> GetOr(feature, "attributes", [none |-> TRUE]) ]
to_geojson(arcgis_features) ==
    [ type |-> "FeatureCollection",
      features |-> [i \in DOMAIN arcgis_features |->
                       feature_to_geojson(arcgis_features[i])] ]

\* Line 98-111.
geocode_place(coords) ==
    IF coords = None THEN None
    ELSE [type |-> "Point", coordinates |-> <<coords.lon, coords.lat>>]

\* Line 113-178: every failure is logged and answered with an empty list.
query_within_distance(response) ==
    IF response.kind \in {"transport", "http_error", "error_body"} THEN <<>>
    ELSE response.features

\* Line 224-317, after the geocoding of line 235 has answered coords.
\* response is what the feature provider answers if it is asked.
NearAsksProvider(args, coords) ==
    /\ coords /= None
    /\ HasKey(service_configs, args.infrastructure_type)
    /\ LET cfg == service_configs[args.infrastructure_type]
       IN  /\ HasKey(cfg, "url")
           /\ ~GetOr(cfg, "mock_mode", FALSE)
           /\ ~GetOr(cfg, "frontend_only", FALSE)
CenterMissingMutant(center) == FALSE
CenterMissing(center) == center = None
\* _generate_mock_features (line 429-512): 3 to 8 point features.
MockFeatureLists ==
    { [i \in 1..n |-> [ geometry |-> [x |-> i, y |-> i],
                        attributes |-> [OBJECTID |-> i] ]] : n \in 3..8 }
\* str() of the float n * f / 100000, up to the rounding of its last place.
RECURSIVE Zeros(_)
Zeros(k) == IF k <= 0 THEN "" ELSE "0" \o Zeros(k - 1)
RECURSIVE Fraction(_, _)
Fraction(frac, width) ==
    IF frac = 0 THEN "0"
    ELSE IF frac % 10 = 0 THEN Fraction(frac \div 10, width - 1)
    ELSE Zeros(width - Len(ToString(frac))) \o ToString(frac)
FloatText(r) ==
    ToString((r[1] * r[2]) \div KmFactor) \o "."
        \o Fraction((r[1] * r[2]) % KmFactor, 5)
find_infrastructure_near(args, coords, response, mock) ==
    LET place == args.place
        infrastructure_type == args.infrastructure_type
        radius_km == args.radius_km
        center == geocode_place(coords)
        cfg == service_configs[infrastructure_type]
        features == IF GetOr(cfg, "mock_mode", FALSE) THEN mock
                    ELSE query_within_distance(response)
        geojson == to_geojson(features)
        count == Len(geojson.features)
    IN  IF CenterMissing(center)
        THEN Return(GISToolResult(<<"Could not find location: ", place>>,
                                  None, None, None, None))
        ELSE IF ~HasKey(service_configs, infrastructure_type)
        THEN Return(GISToolResult(
                 <<"Unknown infrastructure type: ", infrastructure_type>>,
                 None, None, None, None))
        ELSE IF ~HasKey(cfg, "url")
        THEN Raise("KeyError", "'url'")
        ELSE IF ~GetOr(cfg, "mock_mode", FALSE)
                /\ GetOr(cfg, "frontend_only", FALSE)
        THEN Return(GISToolResult(
                 <<"Abu Dhabi ", cfg.name,
                   " query should be handled by the existing frontend system.">>,
                 None, None,
                 [ requires_frontend |-> TRUE, dataset_file |-> cfg.file,
                   infrastructure_type |-> infrastructure_type ],
                 None))
        ELSE Return(GISToolResult(
                 <<"Found ", ToString(count), " ", cfg.name, " within ",
                   FloatText(radius_km), " km of ", place, ".">>,
                 geojson, center, None,
                 [ total_count |-> count, search_radius_km |-> radius_km,
                   center_coordinates |-> center.coordinates,
                   infrastructure_type |-> infrastructure_type ]))

\* Line 319-399.
AttributesAsksProvider(args) ==
    /\ HasKey(service_configs, args.infrastructure_type)
    /\ HasKey(service_configs[args.infrastructure_type], "url")
find_infrastructure_by_attributes(args, response) ==
    LET infrastructure_type == args.infrastructure_type
        cfg == service_configs[infrastructure_type]
        count == Len(response.features)
    IN  IF ~HasKey(service_configs, infrastructure_type)
        THEN Return(GISToolResult(
                 <<"Unknown infrastructure type: ", infrastructure_type>>,
                 None, None, None, None))
        ELSE IF ~HasKey(cfg, "url")
        THEN Raise("KeyError", "'url'")
        ELSE IF response.kind \in {"transport", "http_error"}
        THEN Return(GISToolResult(<<"Query failed: ", response.kind>>,
                                  None, None, None, None))
        ELSE IF response.kind = "error_body"
        THEN Return(GISToolResult(<<"Query error: ", "Unknown error">>,
                                  None, None, None, None))
        ELSE Return(GISToolResult(
                 <<"Found ", ToString(count), " ", cfg.name,
                   " matching the criteria.">>,
                 to_geojson(response.features), None, None,
                 [ total_count |-> count,
                   where_clause |-> args.where_conditions,
                   infrastructure_type |-> infrastructure_type ]))

\* tool_router.py line 386-408: every exception of the tool becomes a result.
_execute_tool(call) ==
    IF call.raised
    THEN Return(GISToolResult(<<"Error executing query: ", call.message>>,
                              None, None, None, None))
    ELSE call

\* tool_router.py line 108-112.
UnroutableResultMutant ==
    GISToolResult(<<>>, to_geojson(<<>>), None, None, None)
UnroutableResult ==
    GISToolResult(
        <<"I couldn't understand your query. Try asking about finding infrastructure near a location, like 'Find EV charging stations near Sacramento' or 'Show electrical meters in La Mesa'.">>,
        None, None, None, None)

\* geocoding.py line 8: the default of max_retries, used by geocode_place.
DefaultMaxRetries == 3


(***************************************************************************)
(* The vocabulary of SpacyQueryParser (spacy_parser.py).                   *)
(***************************************************************************)
\* Line 34-89: per dataset, in the dictionary's order, the entity types and
\* their phrases (the tokens of each phrase, matched on LOWER).
dataset_entities ==
    [ ev_charging |-> <<
          <<"FUEL_TYPE", << <<"electric">>, <<"ev">>, <<"electric",
               "vehicle">>, <<"electricity">>, <<"elec">>, <<"charging",
               "station">>, <<"charging", "stations">> >> >>,
          <<"NETWORK", << <<"tesla">>, <<"chargepoint">>, <<"evgo">>,
               <<"electrify", "america">>, <<"blink">>, <<"semacharge">> >>
               >>,
          <<"ACCESS_TYPE", << <<"public">>, <<"private">>, <<"restricted">> >>
               >>,
          <<"CHARGER_TYPE", << <<"supercharger">>, <<"fast", "charger">>,
               <<"rapid", "charger">>, <<"tesla", "charger">> >> >>,
          <<"LEVEL2", << <<"level", "2">>, <<"level2">>, <<"l2">>, <<"240v">>,
               <<"level", "ii">>, <<"standard">> >> >>,
          <<"LEVEL1", << <<"level", "1">>, <<"level1">>, <<"l1">>, <<"120v">>,
               <<"level", "i">>, <<"slow">> >> >>,
          <<"STATUS", << <<"available">>, <<"operational">>, <<"working">>,
               <<"active">>, <<"in", "service">>, <<"online">>,
               <<"functioning">> >> >>,
          <<"CONNECTOR", << <<"ccs">>, <<"chademo">>, <<"j1772">>,
               <<"tesla">>, <<"type", "2">> >> >>,
          <<"POWER_LEVEL", << <<"fast">>, <<"rapid">>, <<"slow">>,
               <<"standard">> >> >>
        >>,
      electrical_meters |-> <<
          <<"UTILITY", << <<"sdge">>, <<"sce">>, <<"pge">> >> >>,
          <<"SERVICE_TYPE", << <<"residential">>, <<"commercial">>,
               <<"industrial">>, <<"mixed">> >> >>,
          <<"STATUS", << <<"active">>, <<"inactive">>, <<"verified">>,
               <<"operational">> >> >>,
          <<"METER_TYPE", << <<"smart">>, <<"analog">>, <<"digital">> >> >>,
          <<"VERIFICATION", << <<"verified">>, <<"unverified">>, <<"field",
               "verified">>, <<"pending">> >> >>
        >>,
      gas_meters |-> <<
          <<"UTILITY", << <<"sdge">>, <<"socalgas">>, <<"pge">> >> >>,
          <<"SERVICE_TYPE", << <<"residential">>, <<"commercial">>,
               <<"industrial">> >> >>,
          <<"STATUS", << <<"active">>, <<"inactive">>, <<"verified">>,
               <<"operational">> >> >>,
          <<"OWNER", << <<"la", "mesa">>, <<"caltrans">>, <<"city">>,
               <<"county">>, <<"private">> >> >>,
          <<"VERIFICATION", << <<"verified">>, <<"unverified">>, <<"field",
               "verified">>, <<"pending">> >> >>
        >>,
      service_panels |-> <<
          <<"STATUS", << <<"active">>, <<"inactive">>, <<"complete">>,
               <<"incomplete">>, <<"yes">>, <<"no">> >> >>,
          <<"PANEL_TYPE", << <<"electrical", "panel">>, <<"service",
               "cabinet">>, <<"meter", "cabinet">>, <<"transformer">>,
               <<"switchgear">>, <<"service">>, <<"electrical">> >> >>,
          <<"VOLTAGE", << <<"120v">>, <<"240v">>, <<"480v">>, <<"high",
               "voltage">>, <<"low", "voltage">>, <<"residential">>,
               <<"commercial">> >> >>,
          <<"CAPACITY", << <<"100", "amp">>, <<"200", "amp">>, <<"400",
               "amp">>, <<"main", "panel">>, <<"sub", "panel">> >> >>,
          <<"OWNER", << <<"city">>, <<"utility">>, <<"private">>,
               <<"public">>, <<"la", "mesa">>, <<"caltrans">> >> >>,
          <<"VERIFICATION", << <<"verified">>, <<"unverified">>, <<"field",
               "verified">>, <<"pending", "verification">> >> >>,
          <<"COMPLETION", << <<"complete">>, <<"incomplete">>, <<"finished">>,
               <<"pending">>, <<"yes">>, <<"no">> >> >>
        >>,
      tree_wells |-> <<
          <<"OUTLET_TYPE", << <<"electrical", "outlet">>, <<"receptacle">>,
               <<"power", "outlet">>, <<"gfci">>, <<"weatherproof">>,
               <<"outlet">>, <<"yes">>, <<"no">> >> >>,
          <<"TREE_TYPE", << <<"palm">>, <<"oak">>, <<"maple">>, <<"street",
               "tree">>, <<"deciduous">>, <<"evergreen">> >> >>,
          <<"POWER_RATING", << <<"15", "amp">>, <<"20", "amp">>,
               <<"standard">>, <<"heavy", "duty">> >> >>,
          <<"LOCATION", << <<"sidewalk">>, <<"park">>, <<"street">>,
               <<"median">>, <<"plaza">> >> >>,
          <<"VERIFICATION", << <<"verified">>, <<"unverified">>, <<"field",
               "verified">>, <<"pending", "verification">> >> >>,
          <<"STATUS", << <<"active">>, <<"inactive">>, <<"operational">>,
               <<"maintenance">>, <<"working">> >> >>
        >>,
      acorn_lights |-> <<
          <<"STATUS", << <<"active">>, <<"inactive">>, <<"operational">>,
               <<"maintenance">>, <<"working">>, <<"complete">>,
               <<"incomplete">> >> >>,
          <<"LIGHT_TYPE", << <<"acorn", "light">>, <<"decorative", "light">>,
               <<"street", "light">>, <<"post", "light">>, <<"streetlight">>
               >> >>,
          <<"MOUNTING", << <<"pole", "mounted">>, <<"post", "mounted">>,
               <<"wall", "mounted">>, <<"ground", "mounted">> >> >>,
          <<"POWER_SOURCE", << <<"electric">>, <<"solar">>, <<"led">>,
               <<"fluorescent">>, <<"halogen">> >> >>,
          <<"OUTLET_LOCATION", << <<"top", "outlet">>, <<"base", "outlet">>,
               <<"dual", "outlet">>, <<"both", "outlets">>, <<"top">>,
               <<"base">>, <<"both">>, <<"no", "outlet">> >> >>,
          <<"STYLE", << <<"traditional">>, <<"modern">>, <<"historic">>,
               <<"decorative">>, <<"acorn">> >> >>,
          <<"VERIFICATION", << <<"verified">>, <<"unverified">>, <<"field",
               "verified">>, <<"pending", "verification">> >> >>,
          <<"OWNER", << <<"city">>, <<"utility">>, <<"private">>,
               <<"public">>, <<"la", "mesa">>, <<"caltrans">> >> >>
        >> ]

\* The datasets in the order of the dictionary, and the patterns that the
\* loops of line 215-223 and 902-911 add to a PhraseMatcher for a dictionary
\* of <<dataset, entity types>> entries, in their order.
DatasetOrder ==
    << "ev_charging", "electrical_meters", "gas_meters", "service_panels",
       "tree_wells", "acorn_lights" >>
RECURSIVE PatternsOf(_)
PatternsOf(dict) ==
    IF dict = <<>> THEN <<>>
    ELSE LET types == Head(dict)[2]
         IN  [i \in DOMAIN types |->
                 [ dataset |-> Head(dict)[1], entity_type |-> types[i][1],
                   phrases |-> types[i][2] ]]
             \o PatternsOf(Tail(dict))
StaticPatterns ==
    PatternsOf([i \in DOMAIN DatasetOrder |->
                   <<DatasetOrder[i], dataset_entities[DatasetOrder[i]]>>])

(***************************************************************************)
(* Resting values of the four parts, for the specifications that do not    *)
(* run them.                                                               *)
(***************************************************************************)
RouteIdle ==
    /\ route_pc = "idle"
    /\ query_text = <<>>
    /\ tool_call = NoToolCall
    /\ dispatched = <<>>
    /\ provider_calls = 0
    /\ escaped = FALSE
    /\ result = NoResult

ParseIdle ==
    /\ parse_pc = "idle"
    /\ doc = <<>>
    /\ dataset = ""
    /\ noun_tags = {}
    /\ hash_seed = <<>>
    /\ restarted = FALSE
    /\ runs = <<>>

\* main.py line 1109: no session is stored when the server starts.
NormIdle ==
    /\ norm_pc = "idle"
    /\ norm_query = <<>>
    /\ norm_once = <<>>
    /\ norm_twice = <<>>

NoSessions == [session_id \in {} |-> None]
ChatIdle ==
    /\ conversation_memory = NoSessions
    /\ chat_history = NoSessions
    /\ chat_before = NoSessions
    /\ chat_call = None
    /\ chat_response = None
    /\ llm_failures = 0

FetchIdle ==
    /\ fetch_pc = "idle"
    /\ fetch_site = ""
    /\ fetch_args = None
    /\ fetch_outcomes = <<>>
    /\ fetch_sleeps = <<>>
    /\ fetch_result = None

ConvertIdle ==
    /\ convert_pc = "idle"
    /\ convert_features = <<>>
    /\ convert_result = None

\* Line 31, 143-144 and 215-223: the parser as its constructor leaves it.
\* The matcher holds the first 'static' patterns of StaticPatterns and
\* after them the patterns of 'dynamic'.
SchemaIdle ==
    /\ dynamic_dataset_entities = <<>>
    /\ dynamic_field_mappings = <<>>
    /\ phrase_matcher = [static |-> Len(StaticPatterns), dynamic |-> <<>>]
    /\ update_pc = "idle"
    /\ datasets = <<>>
    /\ update_idx = 0
    /\ parse_entities = <<>>
    /\ seen_matcher = None
    /\ seen_mappings = None

(***************************************************************************)
(* GeoSpec: one call of geocode_location.                                  *)
(***************************************************************************)
GeoCall ==
    /\ geo_pc = "idle"
    /\ \E place \in Places, retries \in 0..MaxRetries : GeoEnter(place, retries)

GeoInit == GeoIdle /\ RouteIdle /\ ParseIdle /\ SchemaIdle /\ ConvertIdle /\ FetchIdle
    /\ ChatIdle /\ NormIdle
GeoNext ==
    \/ GeoCall /\ UNCHANGED <<routeVars, parseVars, schemaVars, convertVars, fetchVars, chatVars, normVars>>
    \/ GeoTransportError /\ UNCHANGED <<routeVars, parseVars, schemaVars, convertVars, fetchVars, chatVars, normVars>>
    \/ GeoNoResults /\ UNCHANGED <<routeVars, parseVars, schemaVars, convertVars, fetchVars, chatVars, normVars>>
    \/ GeoParseError /\ UNCHANGED <<routeVars, parseVars, schemaVars, convertVars, fetchVars, chatVars, normVars>>
    \/ GeoFound /\ UNCHANGED <<routeVars, parseVars, schemaVars, convertVars, fetchVars, chatVars, normVars>>
GeoSpec == GeoInit /\ [][GeoNext]_vars /\ WF_vars(GeoNext)


\* C2: geocode_location returns None only after 4 x max_retries outbound
\* calls, whatever the provider does (as the claim states it).
C2AllCombinationsExhausted ==
    (geo_pc = "done" /\ geo_result = None)
        => Len(calls) = NumQueries * max_retries

\* C2, amended: None is returned only after each of the four reformulations
\* ended: after max_retries calls that failed in transport or brought an
\* empty list, or at the first call whose chosen candidate has no usable
\* lat/lon.  Without such a candidate that is exactly 4 x max_retries calls.
C2EveryReformulationEnded ==
    (geo_pc = "done" /\ geo_result = None) =>
        /\ \A i \in 1..NumQueries :
              LET n == Count(calls, search_queries(location_query)[i])
              IN  IF i \in parse_ended
                  THEN n >= 1 /\ n <= max_retries
                  ELSE n = max_retries
        /\ parse_ended = {} => Len(calls) = NumQueries * max_retries
        /\ Len(calls) <= NumQueries * max_retries

C2Witness ==
    /\ geo_pc = "done" /\ geo_result = None
    /\ max_retries = MaxRetries
    /\ parse_ended = {2}
    /\ Len(calls) = 3 * MaxRetries + 1

\* C3: after the k-th transport failure of a reformulation the backoff is
\* 2^k seconds (as the claim states it, k counting the transport failures).
C3BackoffByFailureCount ==
    (outcome = "transport" /\ geo_pc = "run" /\ attempt > 0)
        => backoff = 2 ^ (tfail - 1)

\* C3, amended: geocode_location terminates; a reformulation gets at most
\* max_retries calls; a transport failure at attempt index k (counting every
\* earlier attempt of the reformulation, k = 0 .. max_retries-2) is followed
\* by 2^k seconds of backoff; the last attempt of a reformulation is followed
\* by no backoff.
C3Bounded ==
    /\ \A i \in 1..NumQueries :
          Count(calls, search_queries(location_query)[i]) <= max_retries
    /\ Len(calls) <= NumQueries * max_retries
    /\ (outcome = "transport" /\ geo_pc = "run" /\ attempt > 0)
          => /\ attempt - 1 <= max_retries - 2
             /\ backoff = 2 ^ (attempt - 1)
    /\ (outcome /= "transport" \/ geo_pc = "done" \/ attempt = 0)
          => backoff = 0
C3TerminatesWithBackoff ==
    /\ []C3Bounded
    /\ (geo_pc = "run") ~> (geo_pc = "done")

C3Witness ==
    /\ outcome = "transport" /\ geo_pc = "run"
    /\ attempt = 2 /\ tfail = 1 /\ backoff = 2

\* C4: the reformulations are tried in the order '<place>, California, USA',
\* '<place>, CA, USA', '<place>, United States', '<place>'; a later one only
\* after every earlier one ended without coordinates; once coordinates are
\* returned no further outbound call is made.
C4Order ==
    LET order == << location_query \o ", California, USA",
                    location_query \o ", CA, USA",
                    location_query \o ", United States",
                    location_query >>
        rank(j) == CHOOSE r \in 1..4 : calls[j] = order[r]
    IN  /\ \A j \in 1..Len(calls) : \E r \in 1..4 : calls[j] = order[r]
        /\ calls /= <<>> => rank(1) = 1
        /\ \A j \in 1..(Len(calls) - 1) :
              \/ rank(j + 1) = rank(j)
              \/ /\ rank(j + 1) = rank(j) + 1
                 /\ \/ Count(calls, order[rank(j)]) = max_retries
                    \/ rank(j) \in parse_ended
        /\ outcome = "ok" <=> geo_result \in Points
        /\ outcome = "ok" => geo_pc = "done"
C4FixedOrder ==
    /\ []C4Order
    /\ [][(geo_result \in Points) => (calls' = calls)]_vars

C4Witness ==
    /\ geo_result \in Points
    /\ calls /= <<>>
    /\ calls[Len(calls)] = location_query \o ", United States"


(***************************************************************************)
(* AnalyzeSpec: _analyze_query on the normalized text of one query.        *)
(***************************************************************************)
MaxAnalyzeLen == 4
AnalyzeVocab == {"find", "parks", "near", "with", "in", "dubai"}
ExampleQueries ==
    { <<"xyz123", "unintelligible">>,
      <<"Find", "parks", "near", "Dubai">>,
      <<"find", "parks", "near", "dubai", "within", "0", "km">>,
      <<"find", "parks", "near", "dubai", "within", "3", "miles">>,
      <<"show", "bus", "stops", "close", "to", "abu", "dhabi">>,
      <<"find", "mosques", "within", "5", "km", "of", "sacramento">>,
      <<"find", "buildings", "built", "after", "2020">>,
      <<"show", "ev", "charging", "where", "active">>,
      <<"list", "all", "roads">>,
      <<"show", "parks", "in", "dubai">>,
      <<"find", "parks", "near", "dubai", "within", "3", "miles", "or", "5",
        "km">>,
      <<"find", "parks", "near", "dubai", "3", "km", "or", "5", "miles">>,
      <<"find", "EV", "charging", "near", "Sacramento", "within", "3",
        "miles">> }
FilterQueries ==
    { <<"show", "all", "bus", "stops", "in", "abu", "dhabi">>,
      <<"show", "car", "park">>,
      <<"show", "green", "space">>,
      <<"find", "bus", "stops", "near", "abu", "dhabi">>,
      <<"parks", "within", "5", "km", "of", "abu", "dhabi">>,
      <<"parks", "in", "zip", "91941">>,
      <<"parks", "installed", "in", "2020">>,
      <<"parks", "installed", "after", "2020">>,
      <<"parks", "installed", "before", "2020">> }
AnalyzeQueries ==
    SeqsUpTo(AnalyzeVocab, MaxAnalyzeLen) \cup ExampleQueries
        \cup FilterQueries

\* route_query line 103-106.
Analyze ==
    /\ route_pc = "idle"
    /\ \E text \in AnalyzeQueries :
          /\ query_text' = text
          /\ tool_call' = _analyze_query(Normalize(text))
    /\ route_pc' = "analyzed"
    /\ UNCHANGED <<dispatched, provider_calls, escaped, result>>

AnalyzeInit == GeoIdle /\ RouteIdle /\ ParseIdle /\ SchemaIdle /\ ConvertIdle /\ FetchIdle
    /\ ChatIdle /\ NormIdle
AnalyzeNext == Analyze /\ UNCHANGED <<geoVars, parseVars, schemaVars, convertVars, fetchVars, chatVars, normVars>>
AnalyzeSpec == AnalyzeInit /\ [][AnalyzeNext]_vars

\* C5: the family is chosen in the order proximity, attribute, listing: a
\* query matching a proximity template becomes find_infrastructure_near
\* whatever else it matches, one matching no proximity but an attribute
\* template becomes find_infrastructure_by_attributes, and there is no
\* ToolCall exactly when no template of any family matches.
C5FirstMatchingFamily ==
    route_pc = "analyzed" =>
        LET q == Normalize(query_text)
        IN  /\ SpatialMatch(q).hit =>
                 /\ tool_call.tool_name = "find_infrastructure_near"
                 /\ tool_call.confidence = 90
            /\ (~SpatialMatch(q).hit /\ AttributeMatch(q).hit) =>
                 /\ tool_call.tool_name = "find_infrastructure_by_attributes"
                 /\ tool_call.confidence = 85
            /\ (~SpatialMatch(q).hit /\ ~AttributeMatch(q).hit
                    /\ SimpleMatch(q).hit) =>
                 tool_call.confidence \in {70, 80}
            /\ tool_call = NoToolCall <=>
                 ~(SpatialMatch(q).hit \/ AttributeMatch(q).hit
                       \/ SimpleMatch(q).hit)

C5Witness ==
    /\ route_pc = "analyzed"
    /\ SpatialMatch(Normalize(query_text)).hit
    /\ AttributeMatch(Normalize(query_text)).hit
    /\ SimpleMatch(Normalize(query_text)).hit
    /\ tool_call.tool_name = "find_infrastructure_near"


(***************************************************************************)
(* RouteSpec: one call of route_query, the geocoding of the place and the  *)
(* executor included.                                                      *)
(***************************************************************************)
MaxRouteLen == 3
RouteVocab == {"parks", "near", "dubai"}
RouteQueries == SeqsUpTo(RouteVocab, MaxRouteLen) \cup ExampleQueries

\* The provider answers only a request that is issued, and mock features are
\* generated only in mock mode.
NotAsked == [kind |-> "not_asked", features |-> <<>>]
ProviderAnswers(asked) == IF asked THEN ProviderResponses ELSE {NotAsked}
MockAnswers(args) ==
    IF /\ HasKey(service_configs, args.infrastructure_type)
       /\ GetOr(service_configs[args.infrastructure_type], "mock_mode", FALSE)
    THEN MockFeatureLists ELSE {<<>>}

\* What route_query hands back: the returned result, or the exception that
\* leaves it.
RouteReturn(out) ==
    /\ escaped' = out.raised
    /\ result' = IF out.raised THEN NoResult ELSE out.value
    /\ route_pc' = "done"

\* tool_router.py line 103-112: no template matches.
RouteUnroutable ==
    /\ route_pc = "idle"
    /\ \E text \in RouteQueries :
          /\ _analyze_query(Normalize(text)) = NoToolCall
          /\ query_text' = text
          /\ tool_call' = NoToolCall
    /\ RouteReturn(Return(UnroutableResult))
    /\ UNCHANGED <<dispatched, provider_calls, geoVars>>

\* tool_router.py line 103-115 with gis_tools.py line 319-399.
RouteAttributes ==
    /\ route_pc = "idle"
    /\ \E text \in RouteQueries :
          LET call == _analyze_query(Normalize(text))
          IN  /\ call.tool_name = "find_infrastructure_by_attributes"
              /\ query_text' = text
              /\ tool_call' = call
              /\ dispatched' = Append(dispatched, call)
              /\ provider_calls' = provider_calls
                     + (IF AttributesAsksProvider(call.args) THEN 1 ELSE 0)
              /\ \E response \in
                        ProviderAnswers(AttributesAsksProvider(call.args)) :
                     RouteReturn(_execute_tool(
                         find_infrastructure_by_attributes(call.args,
                                                           response)))
    /\ UNCHANGED geoVars

\* tool_router.py line 103-115 and gis_tools.py line 235, 103: the ToolCall
\* is handed to the executor, which starts geocoding the place.
RouteNear ==
    /\ route_pc = "idle"
    /\ \E text \in RouteQueries :
          LET call == _analyze_query(Normalize(text))
          IN  /\ call.tool_name = "find_infrastructure_near"
              /\ query_text' = text
              /\ tool_call' = call
              /\ dispatched' = Append(dispatched, call)
              /\ GeoEnter(call.args.place, DefaultMaxRetries)
    /\ route_pc' = "geocoding"
    /\ UNCHANGED <<provider_calls, escaped, result>>

\* One outbound call of the geocoding in progress.
RouteGeocode ==
    /\ route_pc = "geocoding"
    /\ GeoStep
    /\ UNCHANGED routeVars

\* gis_tools.py line 236-317, once geocode_location has returned.
RouteNearFinish ==
    /\ route_pc = "geocoding"
    /\ geo_pc = "done"
    /\ \E response \in ProviderAnswers(
                            NearAsksProvider(tool_call.args, geo_result)),
          mock \in MockAnswers(tool_call.args) :
          RouteReturn(_execute_tool(
              find_infrastructure_near(tool_call.args, geo_result,
                                       response, mock)))
    /\ provider_calls' = provider_calls
           + (IF NearAsksProvider(tool_call.args, geo_result) THEN 1 ELSE 0)
    /\ UNCHANGED <<query_text, tool_call, dispatched, geoVars>>

RouteInit == GeoIdle /\ RouteIdle /\ ParseIdle /\ SchemaIdle /\ ConvertIdle /\ FetchIdle
    /\ ChatIdle /\ NormIdle
RouteNext ==
    \/ RouteUnroutable /\ UNCHANGED <<parseVars, schemaVars, convertVars, fetchVars, chatVars, normVars>>
    \/ RouteAttributes /\ UNCHANGED <<parseVars, schemaVars, convertVars, fetchVars, chatVars, normVars>>
    \/ RouteNear /\ UNCHANGED <<parseVars, schemaVars, convertVars, fetchVars, chatVars, normVars>>
    \/ RouteGeocode /\ UNCHANGED <<parseVars, schemaVars, convertVars, fetchVars, chatVars, normVars>>
    \/ RouteNearFinish /\ UNCHANGED <<parseVars, schemaVars, convertVars, fetchVars, chatVars, normVars>>
RouteSpec == RouteInit /\ [][RouteNext]_vars


\* C6: when no routing template matches, route_query returns non-empty
\* explanatory text with geojson and center null, makes no geocoding call
\* and no feature-provider call, and raises nothing.
C6UnroutableIsEmptyResult ==
    (route_pc = "done" /\ tool_call = NoToolCall) =>
        /\ result /= NoResult
        /\ result.text /= <<>>
        /\ \A i \in DOMAIN result.text : result.text[i] /= ""
        /\ result.geojson = None
        /\ result.center = None
        /\ geo_pc = "idle" /\ calls = <<>>
        /\ provider_calls = 0
        /\ dispatched = <<>>
        /\ ~escaped

C6Witness ==
    /\ route_pc = "done"
    /\ query_text = <<"xyz123", "unintelligible">>
    /\ tool_call = NoToolCall

\* C7: for a proximity query whose every geocoding attempt of every
\* reformulation fails with a transport error, route_query returns a text
\* saying the location could not be found and a null geojson, issues no
\* feature-provider request, and lets no exception escape.
C7TransportFailureIsNotFound ==
    (/\ route_pc = "done"
     /\ tool_call.tool_name = "find_infrastructure_near"
     /\ only_transport) =>
        /\ Len(calls) = NumQueries * DefaultMaxRetries
        /\ ~escaped
        /\ result /= NoResult
        /\ result.text = <<"Could not find location: ", tool_call.args.place>>
        /\ result.geojson = None
        /\ provider_calls = 0

C7Witness ==
    /\ route_pc = "done"
    /\ tool_call.tool_name = "find_infrastructure_near"
    /\ only_transport
    /\ Len(calls) = NumQueries * DefaultMaxRetries
    /\ outcome = "transport"

\* C8: every ToolCall dispatched to the proximity operation has a radius_km
\* greater than 0 and a non-empty place.
C8DispatchedNearIsValid ==
    \A j \in DOMAIN dispatched :
        dispatched[j].tool_name = "find_infrastructure_near" =>
            /\ dispatched[j].args.radius_km[1] > 0
            /\ dispatched[j].args.place /= ""

\* C9: for every infrastructure type of the service configuration a
\* dispatched operation ends with the 'Found ...' summary: the proximity
\* operation, once the place is geocoded, with the center and the statistics
\* (count, radius, center, type), the attribute operation with the count.
C9DispatchedOperationFinds ==
    (/\ route_pc = "done"
     /\ tool_call /= NoToolCall
     /\ HasKey(service_configs, tool_call.args.infrastructure_type)) =>
        LET a == tool_call.args
            name == service_configs[a.infrastructure_type].name
        IN  /\ ~escaped
            /\ result /= NoResult
            /\ tool_call.tool_name = "find_infrastructure_by_attributes" =>
                  /\ Len(result.text) = 4
                  /\ result.text[1] = "Found "
                  /\ result.text[3] = " "
                  /\ result.text[4] = name \o " matching the criteria."
                  /\ result.statistics /= None
                  /\ ToString(result.statistics.total_count) = result.text[2]
            /\ (tool_call.tool_name = "find_infrastructure_near"
                    /\ geo_result \in Points) =>
                  /\ Len(result.text) = 9
                  /\ result.text[1] = "Found "
                  /\ result.text[4] = name
                  /\ result.text[6] = FloatText(a.radius_km)
                  /\ result.text[8] = a.place
                  /\ result.center = geocode_place(geo_result)
                  /\ result.statistics /= None
                  /\ result.statistics.search_radius_km = a.radius_km
                  /\ result.statistics.infrastructure_type
                         = a.infrastructure_type


(***************************************************************************)
(* SpacyQueryParser (spacy_parser.py).  A Doc is the sequence of its       *)
(* tokens; the texts handled here are lower-case words and numbers, one    *)
(* token each.                                                             *)
(***************************************************************************)
\* Line 92-140.  'to' holds the mapped value, or the values of a list.
field_mappings ==
    [ ev_charging |-> <<
          [ entity_type |-> "FUEL_TYPE", field |-> "Fuel_Type_", type |-> "code",
            values |-> <<
                [key |-> "ev", list |-> FALSE, to |-> <<"ELEC">>],
                [key |-> "electric", list |-> FALSE, to |-> <<"ELEC">>],
                [key |-> "charging stations", list |-> FALSE, to |-> <<"ELEC">>],
                [key |-> "elec", list |-> FALSE, to |-> <<"ELEC">>] >> ],
          [ entity_type |-> "NETWORK", field |-> "EV_Network", type |-> "exact",
            values |-> <<
                [key |-> "tesla", list |-> TRUE, to |-> <<"Tesla", "Tesla Destination">>],
                [key |-> "chargepoint", list |-> FALSE, to |-> <<"ChargePoint Network">>],
                [key |-> "electrify america", list |-> FALSE, to |-> <<"Electrify America">>],
                [key |-> "evgo", list |-> FALSE, to |-> <<"eVgo Network">>],
                [key |-> "blink", list |-> FALSE, to |-> <<"Blink Network">>],
                [key |-> "non-networked", list |-> FALSE, to |-> <<"Non-Networked">>] >> ],
          [ entity_type |-> "ACCESS_TYPE", field |-> "Groups_Wit", type |-> "code",
            values |-> <<
                [key |-> "public", list |-> FALSE, to |-> <<"Public">>],
                [key |-> "private", list |-> FALSE, to |-> <<"Private">>] >> ],
          [ entity_type |-> "STATUS", field |-> "Status_Cod", type |-> "exact",
            values |-> <<
                [key |-> "available", list |-> FALSE, to |-> <<"E">>],
                [key |-> "operational", list |-> FALSE, to |-> <<"E">>] >> ]
        >>,
      electrical_meters |-> <<
          [ entity_type |-> "SERVICE_TYPE", field |-> "ServiceType1", type |-> "exact",
            values |-> <<
                [key |-> "residential", list |-> FALSE, to |-> <<"Residential">>],
                [key |-> "commercial", list |-> FALSE, to |-> <<"Commercial">>] >> ],
          [ entity_type |-> "VERIFICATION", field |-> "FieldVerified", type |-> "boolean",
            values |-> <<
                [key |-> "verified", list |-> FALSE, to |-> <<"Yes">>],
                [key |-> "unverified", list |-> FALSE, to |-> <<"No">>] >> ],
          [ entity_type |-> "STATUS", field |-> "Status", type |-> "exact",
            values |-> <<>> ]
        >>,
      gas_meters |-> <<
          [ entity_type |-> "VERIFICATION", field |-> "FieldVerified", type |-> "boolean",
            values |-> <<
                [key |-> "verified", list |-> FALSE, to |-> <<"Yes">>],
                [key |-> "unverified", list |-> FALSE, to |-> <<"No">>] >> ],
          [ entity_type |-> "OWNER", field |-> "Owner", type |-> "code",
            values |-> <<
                [key |-> "la mesa", list |-> FALSE, to |-> <<"1">>],
                [key |-> "caltrans", list |-> FALSE, to |-> <<"2">>] >> ],
          [ entity_type |-> "STATUS", field |-> "Status", type |-> "exact",
            values |-> <<>> ]
        >>,
      service_panels |-> <<
          [ entity_type |-> "STATUS", field |-> "Status", type |-> "exact",
            values |-> <<>> ],
          [ entity_type |-> "PANEL_TYPE", field |-> "Type", type |-> "exact",
            values |-> <<>> ],
          [ entity_type |-> "COMPLETION", field |-> "Complete", type |-> "exact",
            values |-> <<
                [key |-> "complete", list |-> FALSE, to |-> <<"Yes">>],
                [key |-> "incomplete", list |-> FALSE, to |-> <<"No">>] >> ],
          [ entity_type |-> "OWNER", field |-> "Owner", type |-> "exact",
            values |-> <<>> ],
          [ entity_type |-> "VERIFICATION", field |-> "FieldVerified", type |-> "boolean",
            values |-> <<
                [key |-> "verified", list |-> FALSE, to |-> <<"Yes">>],
                [key |-> "unverified", list |-> FALSE, to |-> <<"No">>] >> ],
          [ entity_type |-> "SERVICE_TYPE", field |-> "ServiceType1", type |-> "exact",
            values |-> <<>> ]
        >>,
      tree_wells |-> <<
          [ entity_type |-> "OUTLET_TYPE", field |-> "Outlet", type |-> "exact",
            values |-> <<
                [key |-> "outlet", list |-> FALSE, to |-> <<"Yes">>],
                [key |-> "no outlet", list |-> FALSE, to |-> <<"No">>] >> ],
          [ entity_type |-> "STATUS", field |-> "Outlet", type |-> "exact",
            values |-> <<
                [key |-> "active", list |-> FALSE, to |-> <<"Yes">>],
                [key |-> "inactive", list |-> FALSE, to |-> <<"No">>] >> ],
          [ entity_type |-> "SERVICE_TYPE", field |-> "Service_De", type |-> "exact",
            values |-> <<>> ]
        >>,
      acorn_lights |-> <<
          [ entity_type |-> "LIGHT_TYPE", field |-> "LightType", type |-> "exact",
            values |-> <<>> ],
          [ entity_type |-> "WATTAGE", field |-> "Wattage", type |-> "numeric",
            values |-> <<>> ],
          [ entity_type |-> "LOCATION", field |-> "LOCATION", type |-> "exact",
            values |-> <<>> ],
          [ entity_type |-> "STREET", field |-> "STREET", type |-> "exact",
            values |-> <<>> ],
          [ entity_type |-> "ROAD_TYPE", field |-> "ROAD_TYPE", type |-> "exact",
            values |-> <<>> ],
          [ entity_type |-> "LAMP_WARRANTER", field |-> "Lamp_Warranter", type |-> "exact",
            values |-> <<>> ],
          [ entity_type |-> "LAMP_HEADS", field |-> "LAMP_HEADS", type |-> "numeric",
            values |-> <<>> ]
        >> ]

\* str.title() on the words of the phrases; other words here are unchanged.
TitleTable ==
    { <<"120v", "120V">>, <<"240v", "240V">>, <<"480v", "480V">>, <<"acorn",
      "Acorn">>, <<"active", "Active">>, <<"america", "America">>, <<"amp",
      "Amp">>, <<"analog", "Analog">>, <<"available", "Available">>,
      <<"base", "Base">>, <<"blink", "Blink">>, <<"both", "Both">>,
      <<"cabinet", "Cabinet">>, <<"caltrans", "Caltrans">>, <<"ccs",
      "Ccs">>, <<"chademo", "Chademo">>, <<"chargepoint", "Chargepoint">>,
      <<"charger", "Charger">>, <<"charging", "Charging">>, <<"city",
      "City">>, <<"commercial", "Commercial">>, <<"complete", "Complete">>,
      <<"county", "County">>, <<"deciduous", "Deciduous">>, <<"decorative",
      "Decorative">>, <<"digital", "Digital">>, <<"dual", "Dual">>,
      <<"duty", "Duty">>, <<"elec", "Elec">>, <<"electric", "Electric">>,
      <<"electrical", "Electrical">>, <<"electricity", "Electricity">>,
      <<"electrify", "Electrify">>, <<"ev", "Ev">>, <<"evergreen",
      "Evergreen">>, <<"evgo", "Evgo">>, <<"fast", "Fast">>, <<"field",
      "Field">>, <<"finished", "Finished">>, <<"fluorescent",
      "Fluorescent">>, <<"functioning", "Functioning">>, <<"gfci", "Gfci">>,
      <<"ground", "Ground">>, <<"halogen", "Halogen">>, <<"heavy",
      "Heavy">>, <<"high", "High">>, <<"historic", "Historic">>, <<"i",
      "I">>, <<"ii", "Ii">>, <<"in", "In">>, <<"inactive", "Inactive">>,
      <<"incomplete", "Incomplete">>, <<"industrial", "Industrial">>,
      <<"j1772", "J1772">>, <<"l1", "L1">>, <<"l2", "L2">>, <<"la", "La">>,
      <<"led", "Led">>, <<"level", "Level">>, <<"level1", "Level1">>,
      <<"level2", "Level2">>, <<"light", "Light">>, <<"low", "Low">>,
      <<"main", "Main">>, <<"maintenance", "Maintenance">>, <<"maple",
      "Maple">>, <<"median", "Median">>, <<"mesa", "Mesa">>, <<"meter",
      "Meter">>, <<"mixed", "Mixed">>, <<"modern", "Modern">>, <<"mounted",
      "Mounted">>, <<"no", "No">>, <<"oak", "Oak">>, <<"online", "Online">>,
      <<"operational", "Operational">>, <<"outlet", "Outlet">>, <<"outlets",
      "Outlets">>, <<"palm", "Palm">>, <<"panel", "Panel">>, <<"park",
      "Park">>, <<"pending", "Pending">>, <<"pge", "Pge">>, <<"plaza",
      "Plaza">>, <<"pole", "Pole">>, <<"post", "Post">>, <<"power",
      "Power">>, <<"private", "Private">>, <<"public", "Public">>,
      <<"rapid", "Rapid">>, <<"receptacle", "Receptacle">>, <<"residential",
      "Residential">>, <<"restricted", "Restricted">>, <<"sce", "Sce">>,
      <<"sdge", "Sdge">>, <<"semacharge", "Semacharge">>, <<"service",
      "Service">>, <<"sidewalk", "Sidewalk">>, <<"slow", "Slow">>,
      <<"smart", "Smart">>, <<"socalgas", "Socalgas">>, <<"solar",
      "Solar">>, <<"standard", "Standard">>, <<"station", "Station">>,
      <<"stations", "Stations">>, <<"street", "Street">>, <<"streetlight",
      "Streetlight">>, <<"sub", "Sub">>, <<"supercharger", "Supercharger">>,
      <<"switchgear", "Switchgear">>, <<"tesla", "Tesla">>, <<"top",
      "Top">>, <<"traditional", "Traditional">>, <<"transformer",
      "Transformer">>, <<"tree", "Tree">>, <<"type", "Type">>,
      <<"unverified", "Unverified">>, <<"utility", "Utility">>, <<"vehicle",
      "Vehicle">>, <<"verification", "Verification">>, <<"verified",
      "Verified">>, <<"voltage", "Voltage">>, <<"wall", "Wall">>,
      <<"weatherproof", "Weatherproof">>, <<"working", "Working">>, <<"yes",
      "Yes">> }
TitleWord(w) ==
    IF \E p \in TitleTable : p[1] = w
    THEN (CHOOSE p \in TitleTable : p[1] = w)[2]
    ELSE w
Title(ws) == Join([i \in DOMAIN ws |-> TitleWord(ws[i])], " ")

\* Token.like_num, and str(float(token.text)).  like_num is true of digits
\* and of number words; float() raises ValueError on a number word.
Numerals == {"3", "6"}
NumberWords == {"three"}
like_num(w) == w \in Numerals \cup NumberWords
FloatStr(w) == w \o ".0"
FloatValue(w) ==
    CASE w = "3" -> 3
      [] w = "6" -> 6

\* The elements of a finite set of tuples as a sequence, smallest first.
RECURSIVE TupleLess(_, _)
TupleLess(a, b) ==
    IF a = <<>> \/ b = <<>> THEN FALSE
    ELSE a[1] < b[1] \/ (a[1] = b[1] /\ TupleLess(Tail(a), Tail(b)))
RECURSIVE Sorted(_)
Sorted(S) ==
    IF S = {} THEN <<>>
    ELSE LET m == CHOOSE x \in S : \A y \in S \ {x} : TupleLess(x, y)
         IN  <<m>> \o Sorted(S \ {m})


\* Line 703-754.  The names given here are keys of dataset_mappings or hold
\* none of the words the inference looks for.
dataset_mappings ==
    { <<"ev_charging_0", "ev_charging">>, <<"ev_charging", "ev_charging">>,
      <<"electrical_meters_0", "electrical_meters">>,
      <<"electrical_meters", "electrical_meters">>,
      <<"la_mesa_electrical_0", "electrical_meters">>,
      <<"gas_meters_0", "gas_meters">>, <<"gas_meters", "gas_meters">>,
      <<"la_mesa_gas_0", "gas_meters">>,
      <<"service_panels", "service_panels">>,
      <<"la_mesa_electrical_2", "service_panels">>,
      <<"tree_wells", "tree_wells">>, <<"la_mesa_electrical_3", "tree_wells">>,
      <<"acorn_lights", "acorn_lights">>,
      <<"la_mesa_electrical_4", "acorn_lights">>,
      <<"la_mesa_electrical_5", "acorn_lights">> }
_map_to_base_dataset(name) ==
    IF \E m \in dataset_mappings : m[1] = name
    THEN (CHOOSE m \in dataset_mappings : m[1] = name)[2]
    ELSE "ev_charging"

\* A dictionary that keeps the order of insertion: <<key, value>> entries.
DictHas(dict, key) == \E i \in DOMAIN dict : dict[i][1] = key
DictGet(dict, key, default) ==
    IF DictHas(dict, key)
    THEN dict[CHOOSE i \in DOMAIN dict : dict[i][1] = key][2]
    ELSE default
DictSet(dict, key, value) ==
    IF DictHas(dict, key)
    THEN [i \in DOMAIN dict |->
             IF dict[i][1] = key THEN <<key, value>> ELSE dict[i]]
    ELSE Append(dict, <<key, value>>)

\* The patterns a PhraseMatcher holds, in the order they were added.
Patterns(matcher) ==
    SubSeq(StaticPatterns, 1, matcher.static) \o matcher.dynamic

\* The label of a pattern is dataset + "_" + entity_type.  Line 418-419: the
\* label starts with the base dataset, and what is left of it when the base
\* and its underscore are taken out.  DatasetSuffixes lists the dataset ids
\* that continue the name of a base dataset.
DatasetSuffixes == { <<"ev_charging_0", "ev_charging", "0">> }
LabelStartsWith(pattern, base) ==
    \/ pattern.dataset = base
    \/ \E x \in DatasetSuffixes : x[1] = pattern.dataset /\ x[2] = base
LabelEntityType(pattern, base) ==
    IF pattern.dataset = base THEN pattern.entity_type
    ELSE (CHOOSE x \in DatasetSuffixes :
              x[1] = pattern.dataset /\ x[2] = base)[3]
         \o "_" \o pattern.entity_type

\* PhraseMatcher (line 31, 215-223, 414) and the test of line 418: every
\* occurrence of every phrase of every label that starts with the base
\* dataset, <<start, end, index of the label>>, by start, then end.  A label
\* added twice is one label with the phrases of both additions.
PhraseMatches(tokens, matcher, base) ==
    LET patterns == Patterns(matcher)
        mine == {k \in DOMAIN patterns : LabelStartsWith(patterns[k], base)}
        Same(i, j) == /\ patterns[i].dataset = patterns[j].dataset
                      /\ patterns[i].entity_type = patterns[j].entity_type
        labels == {k \in mine : \A j \in mine : j < k => ~Same(k, j)}
    IN  Sorted({ m \in (1..Len(tokens)) \X (1..Len(tokens)) \X labels :
                   /\ m[1] <= m[2]
                   /\ \E j \in mine :
                         /\ Same(m[3], j)
                         /\ SubSeq(tokens, m[1], m[2])
                                \in Range(patterns[j].phrases) })

\* Line 408-430: the entity types in the order of their first match, each
\* with the matched texts in the order of the matches.
RECURSIVE CollectEntities(_, _, _, _, _)
CollectEntities(tokens, base, patterns, matches, found) ==
    IF matches = <<>> THEN found
    ELSE LET m == Head(matches)
             entity_type == LabelEntityType(patterns[m[3]], base)
             entity_value == SubSeq(tokens, m[1], m[2])
             known == {i \in DOMAIN found :
                          found[i].entity_type = entity_type}
             next ==
                 IF known = {}
                 THEN Append(found, [ entity_type |-> entity_type,
                                      values |-> <<entity_value>> ])
                 ELSE [i \in DOMAIN found |->
                          IF i \in known
                          THEN [ found[i] EXCEPT
                                   !.values = Append(@, entity_value) ]
                          ELSE found[i]]
         IN  CollectEntities(tokens, base, patterns, Tail(matches), next)
_extract_entities_spacy(tokens, base) ==
    CollectEntities(tokens, base, Patterns(phrase_matcher),
                    PhraseMatches(tokens, phrase_matcher, base), <<>>)

\* Matcher, line 154-182 and 438: every match of the five numeric comparison
\* patterns, the shorter and the longer ones of an optional or repeated
\* token alike, <<end, start, pattern>>, in the order the matcher finishes
\* them.
NumRun(tokens, a, b) ==
    a >= 1 /\ a <= b /\ b <= Len(tokens) /\ \A i \in a..b : like_num(tokens[i])
\* [head] [optional word] [number]+
HeadPattern(tokens, heads, optional, s, e) ==
    /\ tokens[s] \in heads
    /\ \/ NumRun(tokens, s + 1, e)
       \/ /\ s + 1 <= Len(tokens) /\ tokens[s + 1] \in optional
          /\ NumRun(tokens, s + 2, e)
\* [number]+ [or | +] [more]?
TailPattern(tokens, s, e) ==
    \E k \in s..e :
        /\ NumRun(tokens, s, k)
        /\ k + 1 <= Len(tokens) /\ tokens[k + 1] \in {"or", "+"}
        /\ \/ e = k + 1
           \/ e = k + 2 /\ e <= Len(tokens) /\ tokens[e] = "more"
MoreWords == {"more", "greater", "above", "over"}
LessWords == {"less", "fewer", "under", "below"}
AtLeastWords == {"at", "minimum", "min"}
EqualWords == {"exactly", "equal"}
NumericPattern(tokens, p, s, e) ==
    CASE p = 0 -> HeadPattern(tokens, MoreWords, {"than"}, s, e)
      [] p = 1 -> HeadPattern(tokens, LessWords, {"than"}, s, e)
      [] p = 2 -> HeadPattern(tokens, AtLeastWords, {"least", "of"}, s, e)
      [] p = 3 -> HeadPattern(tokens, EqualWords, {"to"}, s, e)
      [] p = 4 -> TailPattern(tokens, s, e)
NumericMatches(tokens) ==
    Sorted({ m \in (1..Len(tokens)) \X (1..Len(tokens)) \X (0..4) :
               m[2] <= m[1] /\ NumericPattern(tokens, m[3], m[2], m[1]) })

\* Line 448-464: the last comparison word of the span decides the operator,
\* the last number its value.
RECURSIVE SpanOperator(_, _)
SpanOperator(span, operator) ==
    IF span = <<>> THEN operator
    ELSE LET w == Head(span)
         IN  SpanOperator(Tail(span),
                 IF like_num(w) THEN operator
                 ELSE IF w \in MoreWords THEN ">"
                 ELSE IF w \in LessWords THEN "<"
                 ELSE IF w \in AtLeastWords THEN ">="
                 ELSE IF w \in EqualWords THEN "="
                 ELSE operator)
SpanValue(span) ==
    LET nums == {i \in DOMAIN span : like_num(span[i]) /\ span[i] \in Numerals}
    IN  IF nums = {} THEN "None"
        ELSE FloatStr(span[CHOOSE i \in nums : \A j \in nums : j <= i])

\* Matcher, line 184-198: the matches of the two distance patterns,
\* <<end, start, pattern>>, in the order the matcher finishes them.
DistanceLeads == {"within", "in", "inside"}
DistanceUnits == {"miles", "mile", "mi", "km", "kilometers", "kilometer"}
DistanceTrails == {"away", "radius", "around", "from"}
DistancePattern(tokens, p, s) ==
    /\ s >= 1 /\ s + 2 <= Len(tokens)
    /\ CASE p = 0 -> /\ tokens[s] \in DistanceLeads
                     /\ like_num(tokens[s + 1])
                     /\ tokens[s + 2] \in DistanceUnits
         [] p = 1 -> /\ like_num(tokens[s])
                     /\ tokens[s + 1] \in DistanceUnits
                     /\ tokens[s + 2] \in DistanceTrails
DistanceMatches(tokens) ==
    Sorted({ m \in (1..Len(tokens)) \X (1..Len(tokens)) \X (0..1) :
               m[1] = m[2] + 2 /\ DistancePattern(tokens, m[3], m[2]) })

\* Line 327-367: the first match that holds a number float() accepts gives
\* the distance; the unit is kilometres unless the span names miles.  No
\* distance is the empty tuple.
NoDistance == <<>>
SpanDistance(span) ==
    LET nums == {i \in DOMAIN span : like_num(span[i]) /\ span[i] \in Numerals}
        units == {i \in DOMAIN span : span[i] \in DistanceUnits}
        unit == IF units = {} THEN "km" ELSE span[MinOf(units)]
    IN  IF nums = {} THEN NoDistance
        ELSE Kilometres(FloatValue(span[MinOf(nums)]),
                        IF unit \in {"miles", "mile", "mi"}
                        THEN MileFactor ELSE KmFactor)
_extract_distance_spacy(tokens) ==
    LET matches == DistanceMatches(tokens)
        found == {k \in DOMAIN matches :
                     SpanDistance(SubSeq(tokens, matches[k][2], matches[k][1]))
                         /= NoDistance}
    IN  IF found = {} THEN NoDistance
        ELSE LET m == matches[MinOf(found)]
             IN  SpanDistance(SubSeq(tokens, m[2], m[1]))

\* Line 466-472: the hint nouns within three tokens of the span.
HintNouns == {"ports", "chargers", "stations", "power", "level"}
FieldCandidates(tokens, nouns, s, e) ==
    LET lo == IF s - 3 < 1 THEN 1 ELSE s - 3
        hi == IF e + 3 > Len(tokens) THEN Len(tokens) ELSE e + 3
        at == {i \in lo..hi : i \in nouns /\ tokens[i] \in HintNouns}
        order == Sorted({<<i>> : i \in at})
    IN  [k \in DOMAIN order |-> tokens[order[k][1]]]

\* Line 432-484.  nouns: the positions tagged NOUN or PROPN.
_extract_conditions_spacy(tokens, nouns) ==
    LET matches == NumericMatches(tokens)
        all == [k \in DOMAIN matches |->
                  LET span == SubSeq(tokens, matches[k][2], matches[k][1])
                  IN  [ operator |-> SpanOperator(span, "="),
                        value |-> SpanValue(span),
                        field_hints |-> FieldCandidates(tokens, nouns,
                                            matches[k][2], matches[k][1]),
                        span_text |-> Join(span, " ") ]]
    IN  SelectSeq(all, LAMBDA c : c.value /= "None")


\* One condition of the WHERE clause: its text, with the field it constrains
\* and the quoted values it names ('...' in the text).
Condition(field, text, values) ==
    [field |-> field, text |-> text, values |-> values]
Equals(field, value) ==
    Condition(field, field \o " = '" \o value \o "'", <<value>>)
AnyOf(field, values) ==
    Condition(field,
              "(" \o Join([i \in DOMAIN values |->
                              field \o " = '" \o values[i] \o "'"], " OR ")
                  \o ")",
              values)

\* Line 496-503: the static configuration of an entity type, else the
\* dynamic one registered under the same dataset, else NoConfig.
NoConfig == [entity_type |-> "None"]
FieldConfig(base, entity_type) ==
    LET table == field_mappings[base]
        at == {i \in DOMAIN table : table[i].entity_type = entity_type}
        dynamic == DictGet(dynamic_field_mappings, base, <<>>)
        dyn_at == {i \in DOMAIN dynamic :
                      dynamic[i].entity_type = entity_type}
    IN  IF at /= {} THEN table[CHOOSE i \in at : TRUE]
        ELSE IF dyn_at /= {} THEN dynamic[CHOOSE i \in dyn_at : TRUE]
        ELSE NoConfig

\* Line 513-559: what one value of an entity adds to the conditions of its
\* field.  No configuration has a list under "boolean", is of type
\* "existence", or is "numeric" with a "condition".
ValueConditions(cfg, value, conds) ==
    LET key == Join(value, " ")
        at == {i \in DOMAIN cfg.values : cfg.values[i].key = key}
        mapped == cfg.values[CHOOSE i \in at : TRUE]
        fromTable ==
            IF mapped.list
            THEN IF AnyOf(cfg.field, mapped.to) \in Range(conds) THEN conds
                 ELSE Append(conds, AnyOf(cfg.field, mapped.to))
            ELSE Append(conds, Equals(cfg.field, mapped.to[1]))
    IN  CASE cfg.type = "exact" ->
                IF at /= {} THEN fromTable
                ELSE Append(conds, Equals(cfg.field, Title(value)))
          [] cfg.type = "code" -> IF at /= {} THEN fromTable ELSE conds
          [] cfg.type = "boolean" ->
                IF at /= {} THEN Append(conds, Equals(cfg.field, mapped.to[1]))
                ELSE conds
          [] OTHER -> conds
RECURSIVE ValuesConditions(_, _, _)
ValuesConditions(cfg, values, conds) ==
    IF values = <<>> THEN conds
    ELSE ValuesConditions(cfg, Tail(values),
                          ValueConditions(cfg, Head(values), conds))

\* Line 492-563: field_conditions, the fields in the order they were first
\* seen, each with its list of conditions.
RECURSIVE GroupByField(_, _, _)
GroupByField(base, entities, field_conditions) ==
    IF entities = <<>> THEN field_conditions
    ELSE LET e == Head(entities)
             cfg == FieldConfig(base, e.entity_type)
             known == {i \in DOMAIN field_conditions :
                          field_conditions[i].field = cfg.field}
             opened == IF known = {}
                       THEN Append(field_conditions,
                                   [field |-> cfg.field, conds |-> <<>>])
                       ELSE field_conditions
             next == [i \in DOMAIN opened |->
                        IF opened[i].field = cfg.field
                        THEN [ opened[i] EXCEPT
                                 !.conds = ValuesConditions(cfg, e.values, @) ]
                        ELSE opened[i]]
         IN  GroupByField(base, Tail(entities),
                          IF cfg = NoConfig THEN field_conditions ELSE next)

\* list(set(conditions_list)), line 596: the distinct elements in the order
\* the set iterates them, which the hashes of the strings decide and so the
\* hash seed of the interpreter process.  seed numbers the orders.
RECURSIVE Distinct(_, _)
Distinct(list, seen) ==
    IF list = <<>> THEN seen
    ELSE Distinct(Tail(list),
                  IF Head(list) \in Range(seen) THEN seen
                  ELSE Append(seen, Head(list)))
RECURSIVE Permuted(_, _)
Permuted(list, seed) ==
    IF list = <<>> THEN <<>>
    ELSE LET k == (seed % Len(list)) + 1
             rest == [i \in 1..(Len(list) - 1) |->
                         IF i < k THEN list[i] ELSE list[i + 1]]
         IN  <<list[k]>> \o Permuted(rest, seed \div Len(list))
SetOrder(list, seed) == Permuted(Distinct(list, <<>>), seed)

\* Line 566-602: the conditions of one field become at most one condition.
FieldCondition(base, field, conds, seed) ==
    LET names(v) == \E i \in DOMAIN conds : v \in Range(conds[i].values)
        unique_conditions == SetOrder(conds, seed)
    IN  IF Len(conds) = 0 THEN <<>>
        ELSE IF Len(conds) = 1 THEN <<conds[1]>>
        ELSE IF field = "Fuel_Type_" /\ base = "ev_charging"
        THEN << Equals("Fuel_Type_", "ELEC") >>
        ELSE IF field \in {"EV_Level2_", "EV_DC_Fast"}
        THEN << Condition(field, field \o " > 0", <<>>) >>
        ELSE IF field = "OutletPosition"
        THEN IF names("Top") THEN << Equals("OutletPosition", "Top") >>
             ELSE <<conds[1]>>
        ELSE IF field = "Groups_Wit"
        THEN IF names("Public") THEN << Equals("Groups_Wit", "Public") >>
             ELSE <<conds[1]>>
        ELSE IF Len(unique_conditions) = 1 THEN unique_conditions
        ELSE << Condition(field,
                    "(" \o Join([i \in DOMAIN unique_conditions |->
                                    unique_conditions[i].text], " OR ")
                        \o ")",
                    <<>>) >>
RECURSIVE FieldConditions(_, _, _)
FieldConditions(base, field_conditions, seed) ==
    IF field_conditions = <<>> THEN <<>>
    ELSE FieldCondition(base, Head(field_conditions).field,
                        Head(field_conditions).conds, seed)
             \o FieldConditions(base, Tail(field_conditions), seed)

\* Line 627-654.
hint_mappings ==
    [ ev_charging |-> { <<"ports", "EV_DC_Fast">>, <<"chargers", "EV_DC_Fast">>,
                        <<"stations", "EV_DC_Fast">>, <<"level", "EV_Level2_">>,
                        <<"power", "EV_DC_Fast">> },
      electrical_meters |-> { <<"meters", "SDGE_Meter">>,
                              <<"service", "ServiceType1">> },
      gas_meters |-> { <<"meters", "SDGE_Meter">>,
                       <<"service", "ServiceType1">> } ]
_map_field_hints_to_database_field(field_hints, base) ==
    LET table == IF HasKey(hint_mappings, base) THEN hint_mappings[base] ELSE {}
        at == {i \in DOMAIN field_hints :
                  \E h \in table : h[1] = field_hints[i]}
    IN  IF at = {} THEN "None"
        ELSE (CHOOSE h \in table : h[1] = field_hints[MinOf(at)])[2]

\* Line 612-623: every numeric condition whose hints name a field is added.
RECURSIVE NumericConditions(_, _)
NumericConditions(base, conditions) ==
    IF conditions = <<>> THEN <<>>
    ELSE LET c == Head(conditions)
             field_name == _map_field_hints_to_database_field(c.field_hints,
                                                              base)
         IN  (IF field_name = "None" THEN <<>>
              ELSE << Condition(field_name,
                          field_name \o " " \o c.operator \o " " \o c.value,
                          <<>>) >>)
                 \o NumericConditions(base, Tail(conditions))

\* Line 486-625.
_build_where_conditions_spacyMutant(entities, conditions, base, seed) ==
    FieldConditions(base, GroupByField(base, entities, <<>>), seed)
        \o (IF base = "ev_charging"
            THEN << Equals("Fuel_Type_", "ELEC") >> ELSE <<>>)
        \o NumericConditions(base, conditions)
_build_where_conditions_spacy(entities, conditions, base, seed) ==
    LET grouped == FieldConditions(base, GroupByField(base, entities, <<>>),
                                   seed)
        has_fuel_type == \E i \in DOMAIN grouped :
                             grouped[i].field = "Fuel_Type_"
        defaults == IF base = "ev_charging" /\ ~has_fuel_type
                    THEN << Equals("Fuel_Type_", "ELEC") >> ELSE <<>>
    IN  grouped \o defaults \o NumericConditions(base, conditions)

\* Line 239-257: the conditions of the query, duplicates removed.
unique_conditionsMutant(tokens, name, nouns, seed) ==
    LET base == _map_to_base_dataset(name)
    IN  _build_where_conditions_spacy(
            _extract_entities_spacy(tokens, base),
            _extract_conditions_spacy(tokens, nouns), base, seed)
unique_conditions(tokens, name, nouns, seed) ==
    LET base == _map_to_base_dataset(name)
    IN  Distinct(_build_where_conditions_spacy(
                     _extract_entities_spacy(tokens, base),
                     _extract_conditions_spacy(tokens, nouns), base, seed),
                 <<>>)

\* Line 225-268.  The texts handled here name no place.
QueryResult(where_clause, location_lat, location_lon, distance_km) ==
    [ where_clause |-> where_clause, location_lat |-> location_lat,
      location_lon |-> location_lon, distance_km |-> distance_km ]
WhereClause(conds) ==
    IF conds = <<>> THEN "1=1"
    ELSE Join([i \in DOMAIN conds |-> conds[i].text], " AND ")
parse_query(tokens, name, nouns, seed) ==
    QueryResult(WhereClause(unique_conditions(tokens, name, nouns, seed)),
                "None", "None", _extract_distance_spacy(tokens))


(***************************************************************************)
(* update_dynamic_mappings (spacy_parser.py, line 756-911).  A dataset     *)
(* configuration is None (not a dictionary) or has the words of its name   *)
(* and the names of the fields of its layer; it has no description.        *)
(***************************************************************************)
\* <<field name, key>>: the lower-case field name holds the key.
FieldNameKeys ==
    { <<"VALVE_STATUS", "status">>, <<"Network_Name", "network">>,
      <<"Access_Group", "access">>, <<"Access_Group", "group">> }
FieldNameHas(name, key) == <<name, key>> \in FieldNameKeys

\* Line 801-842: the blocks of entity types, each with the terms that
\* select it.
EntityBlocks ==
    << [ terms |-> << <<"electrical">>, <<"electric">>, <<"meter">> >>,
         types |-> <<
           <<"INFRASTRUCTURE_TYPE", << <<"electrical">>, <<"electric">>,
                <<"meter">>, <<"electrical", "meter">> >> >>,
           <<"STATUS", << <<"active">>, <<"inactive">>, <<"verified">>,
                <<"unverified">> >> >>,
           <<"SERVICE_TYPE", << <<"residential">>, <<"commercial">>,
                <<"industrial">> >> >> >> ],
       [ terms |-> << <<"gas">>, <<"meter">> >>,
         types |-> <<
           <<"INFRASTRUCTURE_TYPE", << <<"gas">>, <<"meter">>,
                <<"gas", "meter">> >> >>,
           <<"STATUS", << <<"active">>, <<"inactive">>, <<"verified">>,
                <<"unverified">> >> >>,
           <<"SERVICE_TYPE", << <<"residential">>, <<"commercial">>,
                <<"industrial">> >> >>,
           <<"OWNER", << <<"la", "mesa">>, <<"caltrans">>, <<"city">>,
                <<"county">> >> >> >> ],
       [ terms |-> << <<"charging">>, <<"ev">>, <<"electric", "vehicle">> >>,
         types |-> <<
           <<"INFRASTRUCTURE_TYPE", << <<"charging">>, <<"ev">>,
                <<"electric", "vehicle">>, <<"charging", "station">> >> >>,
           <<"NETWORK", << <<"tesla">>, <<"chargepoint">>, <<"evgo">>,
                <<"electrify", "america">> >> >>,
           <<"ACCESS_TYPE", << <<"public">>, <<"private">> >> >>,
           <<"STATUS", << <<"available">>, <<"operational">>,
                <<"working">> >> >> >> ],
       [ terms |-> << <<"service">>, <<"panel">>, <<"cabinet">> >>,
         types |-> <<
           <<"INFRASTRUCTURE_TYPE", << <<"service">>, <<"panel">>,
                <<"cabinet">>, <<"service", "panel">> >> >>,
           <<"STATUS", << <<"active">>, <<"inactive">>, <<"complete">>,
                <<"incomplete">> >> >> >> ],
       [ terms |-> << <<"tree">>, <<"well">>, <<"outlet">> >>,
         types |-> <<
           <<"INFRASTRUCTURE_TYPE", << <<"tree">>, <<"well">>, <<"outlet">>,
                <<"tree", "well">> >> >>,
           <<"STATUS", << <<"active">>, <<"inactive">>, <<"complete">>,
                <<"incomplete">> >> >> >> ],
       [ terms |-> << <<"acorn">>, <<"light">>, <<"lighting">> >>,
         types |-> <<
           <<"INFRASTRUCTURE_TYPE", << <<"acorn">>, <<"light">>,
                <<"lighting">>, <<"acorn", "light">> >> >>,
           <<"STATUS", << <<"active">>, <<"inactive">>, <<"complete">>,
                <<"incomplete">> >> >> >> ] >>

\* dict.update: the entries of 'more' set one after the other.
RECURSIVE DictUpdate(_, _)
DictUpdate(dict, more) ==
    IF more = <<>> THEN dict
    ELSE DictUpdate(DictSet(dict, Head(more)[1], Head(more)[2]), Tail(more))

\* Line 780-844.
RECURSIVE ApplyBlocks(_, _, _)
ApplyBlocks(blocks, text, found) ==
    IF blocks = <<>> THEN found
    ELSE LET block == Head(blocks)
             selected == \E i \in DOMAIN block.terms :
                             TextHas(text, block.terms[i])
         IN  ApplyBlocks(Tail(blocks), text,
                         IF selected THEN DictUpdate(found, block.types)
                         ELSE found)
_extract_entities_from_config(dataset_config) ==
    ApplyBlocks(EntityBlocks, dataset_config.name, <<>>)

\* Line 846-894: the mapping that one field adds, or NoConfig.
FieldMapping(name) ==
    IF FieldNameHas(name, "status")
    THEN [ entity_type |-> "STATUS", field |-> name, type |-> "exact",
           values |-> <<>> ]
    ELSE IF FieldNameHas(name, "service") /\ FieldNameHas(name, "type")
    THEN [ entity_type |-> "SERVICE_TYPE", field |-> name, type |-> "exact",
           values |-> <<>> ]
    ELSE IF FieldNameHas(name, "verified")
    THEN [ entity_type |-> "VERIFICATION", field |-> name,
           type |-> "boolean",
           values |-> <<
               [key |-> "verified", list |-> FALSE, to |-> <<"Yes">>],
               [key |-> "unverified", list |-> FALSE, to |-> <<"No">>] >> ]
    ELSE IF FieldNameHas(name, "owner")
    THEN [ entity_type |-> "OWNER", field |-> name, type |-> "code",
           values |-> <<
               [key |-> "la mesa", list |-> FALSE, to |-> <<"1">>],
               [key |-> "caltrans", list |-> FALSE, to |-> <<"2">>] >> ]
    ELSE IF FieldNameHas(name, "network")
    THEN [ entity_type |-> "NETWORK", field |-> name, type |-> "exact",
           values |-> <<>> ]
    ELSE IF FieldNameHas(name, "access") \/ FieldNameHas(name, "group")
    THEN [ entity_type |-> "ACCESS_TYPE", field |-> name, type |-> "exact",
           values |-> <<>> ]
    ELSE NoConfig
RECURSIVE MapFields(_, _)
MapFields(fields, mappings) ==
    IF fields = <<>> THEN mappings
    ELSE LET m == FieldMapping(Head(fields))
             at == {i \in DOMAIN mappings :
                       mappings[i].entity_type = m.entity_type}
         IN  MapFields(Tail(fields),
                       IF m = NoConfig THEN mappings
                       ELSE IF at = {} THEN Append(mappings, m)
                       ELSE [i \in DOMAIN mappings |->
                                IF i \in at THEN m ELSE mappings[i]])
_extract_field_mappings_from_config(dataset_config) ==
    MapFields(dataset_config.fields, <<>>)

\* Line 759-779, one step each.  Line 763-767: both tables of the entry are
\* computed, which fails for a configuration that is no dictionary, and the
\* vocabulary of the dataset is stored.
UpdateMore(idx) == IF idx < Len(datasets) THEN "entities" ELSE "clear"
UpdateEntities ==
    /\ update_pc = "entities"
    /\ LET dataset_id == datasets[update_idx + 1][1]
           dataset_config == datasets[update_idx + 1][2]
       IN  IF dataset_config = None
           THEN /\ update_idx' = update_idx + 1
                /\ update_pc' = UpdateMore(update_idx + 1)
                /\ UNCHANGED dynamic_dataset_entities
           ELSE /\ dynamic_dataset_entities' =
                       DictSet(dynamic_dataset_entities, dataset_id,
                               _extract_entities_from_config(dataset_config))
                /\ update_pc' = "fields"
                /\ UNCHANGED update_idx
    /\ UNCHANGED <<dynamic_field_mappings, phrase_matcher, datasets>>

\* Line 768: the field mappings of the dataset are stored.
UpdateFields ==
    /\ update_pc = "fields"
    /\ LET dataset_id == datasets[update_idx + 1][1]
           dataset_config == datasets[update_idx + 1][2]
       IN  dynamic_field_mappings' =
               DictSet(dynamic_field_mappings, dataset_id,
                       _extract_field_mappings_from_config(dataset_config))
    /\ update_idx' = update_idx + 1
    /\ update_pc' = UpdateMore(update_idx + 1)
    /\ UNCHANGED <<dynamic_dataset_entities, phrase_matcher, datasets>>

\* _rebuild_phrase_patterns, line 899: a new, empty matcher is installed.
RebuildClear ==
    /\ update_pc = "clear"
    /\ phrase_matcher' = [static |-> 0, dynamic |-> <<>>]
    /\ update_pc' = "add"
    /\ UNCHANGED <<dynamic_dataset_entities, dynamic_field_mappings,
                   datasets, update_idx>>

\* Line 902-911: the next pattern is added to the installed matcher, the
\* static ones first; update_dynamic_mappings returns after the last one.
RebuildAdd ==
    /\ update_pc = "add"
    /\ LET wanted == PatternsOf(dynamic_dataset_entities)
           next ==
               IF phrase_matcher.static < Len(StaticPatterns)
               THEN [phrase_matcher EXCEPT !.static = @ + 1]
               ELSE [phrase_matcher EXCEPT
                       !.dynamic =
                           Append(@, wanted[Len(phrase_matcher.dynamic) + 1])]
       IN  /\ phrase_matcher' = next
           /\ update_pc' =
                  IF /\ next.static = Len(StaticPatterns)
                     /\ Len(next.dynamic) = Len(wanted)
                  THEN "done" ELSE "add"
    /\ UNCHANGED <<dynamic_dataset_entities, dynamic_field_mappings,
                   datasets, update_idx>>


(***************************************************************************)
(* ParseSpec: parse_query run twice on one text, the second time possibly  *)
(* in a fresh interpreter process.                                         *)
(***************************************************************************)
MaxDocLen == 3
MaxHashSeed == 1
HashSeeds == 0..MaxHashSeed
ParseVocab ==
    {"6", "or", "more", "than", "ports", "active", "inactive", "tesla",
     "public"}
ParseExamples ==
    { <<"6", "or", "more", "ports">>,
      <<"more", "than", "6", "ports">>,
      <<"public", "private", "tesla", "ev">>,
      <<"at", "least", "3", "level", "6", "or", "more", "ports">>,
      <<"outlet", "active", "inactive">>,
      <<"3", "or", "6", "or", "ports">>,
      <<"6", "6", "or", "ports">>,
      <<"private", "restricted", "ev", "electric">>,
      <<"within", "3", "miles">>,
      <<"within", "three", "miles">>,
      <<"3", "km", "away">>,
      <<"inside", "6", "mi">>,
      <<"ports", "6", "kilometers", "from", "tesla">>,
      <<"within", "3", "miles", "6", "km", "around">>,
      <<"in", "three", "km", "6", "mile", "radius">>,
      <<"show", "buildings", "with", "more", "than", "6", "levels">> }
ParseDocs == SeqsUpTo(ParseVocab, MaxDocLen) \cup ParseExamples
ParseDatasets ==
    {"ev_charging", "electrical_meters", "la_mesa_electrical_3", "fleet"}

\* The interpreter starts with some hash seed, the tagger labels the text:
\* some of the words that can be nouns are tagged NOUN or PROPN.
NounWords == HintNouns \cup {"levels", "buildings"}
ParseStart ==
    /\ parse_pc = "idle"
    /\ \E tokens \in ParseDocs, name \in ParseDatasets, seed \in HashSeeds :
          /\ doc' = tokens
          /\ dataset' = name
          /\ hash_seed' = seed
          /\ \E nouns \in SUBSET {i \in DOMAIN tokens : tokens[i] \in NounWords} :
                noun_tags' = nouns
    /\ parse_pc' = "ready"
    /\ UNCHANGED <<restarted, runs>>

\* One call of parse_query.
ParseRun ==
    /\ parse_pc = "ready"
    /\ runs' = Append(runs, parse_query(doc, dataset, noun_tags, hash_seed))
    /\ parse_pc' = IF Len(runs) = 0 THEN "ready" ELSE "done"
    /\ UNCHANGED <<doc, dataset, noun_tags, hash_seed, restarted>>

\* The second run is made by a new interpreter process.
ParseRestart ==
    /\ parse_pc = "ready"
    /\ Len(runs) = 1
    /\ ~restarted
    /\ \E seed \in HashSeeds : hash_seed' = seed
    /\ restarted' = TRUE
    /\ UNCHANGED <<parse_pc, doc, dataset, noun_tags, runs>>

ParseInit == GeoIdle /\ RouteIdle /\ ParseIdle /\ SchemaIdle /\ ConvertIdle /\ FetchIdle
    /\ ChatIdle /\ NormIdle
ParseNext ==
    \/ ParseStart /\ UNCHANGED <<geoVars, routeVars, schemaVars, convertVars, fetchVars, chatVars, normVars>>
    \/ ParseRun /\ UNCHANGED <<geoVars, routeVars, schemaVars, convertVars, fetchVars, chatVars, normVars>>
    \/ ParseRestart /\ UNCHANGED <<geoVars, routeVars, schemaVars, convertVars, fetchVars, chatVars, normVars>>
ParseSpec == ParseInit /\ [][ParseNext]_vars

\* C1: the predicate returned by parse_query never has two top-level
\* AND-conjuncts that constrain the same field.
C1OneConjunctPerField ==
    (runs /= <<>> /\ (restarted => Len(runs) = 2)) =>
        LET conds == unique_conditions(doc, dataset, noun_tags, hash_seed)
        IN  /\ runs[Len(runs)].where_clause = WhereClause(conds)
            /\ \A i, j \in DOMAIN conds :
                  i /= j => conds[i].field /= conds[j].field

\* C10: two runs of parse_query on the same text and dataset, in the same or
\* in two interpreter processes, return the same predicate string.
C10SamePredicateTwice ==
    Len(runs) = 2 => runs[1].where_clause = runs[2].where_clause

\* The conjunct texts that the resolution order of C13 allows for a field
\* with the candidate conditions conds, for some order of an OR-combination.
C13Allowed(base, field, conds) ==
    LET distinct == Distinct(conds, <<>>)
        names(v) == \E i \in DOMAIN conds : v \in Range(conds[i].values)
        orders == { Permuted(distinct, n) : n \in 0..23 }
    IN  IF field = "Fuel_Type_" /\ base = "ev_charging"
        THEN { "Fuel_Type_ = 'ELEC'" }
        ELSE IF field = "OutletPosition"
        THEN { IF names("Top") THEN "OutletPosition = 'Top'"
               ELSE conds[1].text }
        ELSE IF field = "Groups_Wit"
        THEN { IF names("Public") THEN "Groups_Wit = 'Public'"
               ELSE conds[1].text }
        ELSE IF Len(distinct) = 1 THEN { distinct[1].text }
        ELSE { "(" \o Join([i \in DOMAIN o |-> o[i].text], " OR ") \o ")" :
                 o \in orders }
\* A condition of the form  field = value.
C13IsEquality(c) ==
    \/ \E v \in Range(c.values) : c.text = Equals(c.field, v).text
    \/ \E n \in Numerals : c.text = c.field \o " = " \o FloatStr(n)

\* C13: a field with more than one entity-derived condition gets exactly one
\* conjunct, chosen in the order: Fuel_Type_ = 'ELEC' for Fuel_Type_ under
\* ev_charging; 'Top' if a candidate has it, else the first candidate, for
\* OutletPosition; 'Public' if a candidate has it, else the first candidate,
\* for Groups_Wit; for any other field the de-duplicated candidates, as-is
\* when one remains and joined by OR in parentheses otherwise.  No two
\* different equality predicates on one field are joined by AND.
C13ResolvedPerField ==
    (runs /= <<>> /\ (restarted => Len(runs) = 2)) =>
        LET base == _map_to_base_dataset(dataset)
            groups == GroupByField(base, _extract_entities_spacy(doc, base),
                                   <<>>)
            conds == unique_conditions(doc, dataset, noun_tags, hash_seed)
        IN  /\ runs[Len(runs)].where_clause = WhereClause(conds)
            /\ \A g \in DOMAIN groups :
                  Len(groups[g].conds) > 1 =>
                      \E i \in DOMAIN conds :
                          /\ conds[i].field = groups[g].field
                          /\ conds[i].text \in
                                 C13Allowed(base, groups[g].field,
                                            groups[g].conds)
                          /\ \A j \in DOMAIN conds :
                                conds[j].field = groups[g].field => j = i
            /\ \A i, j \in DOMAIN conds :
                  ( /\ conds[i].field = conds[j].field
                    /\ C13IsEquality(conds[i])
                    /\ C13IsEquality(conds[j]) ) => conds[i].text = conds[j].text

\* The parts of what the builder returns for the parsed query: the
\* conjuncts derived from the entities, the numeric ones, the whole list.
C14Entity ==
    LET base == _map_to_base_dataset(dataset)
    IN  FieldConditions(base,
                        GroupByField(base, _extract_entities_spacy(doc, base),
                                     <<>>),
                        hash_seed)
C14Numeric ==
    NumericConditions(_map_to_base_dataset(dataset),
                      _extract_conditions_spacy(doc, noun_tags))
C14Built ==
    LET base == _map_to_base_dataset(dataset)
    IN  _build_where_conditions_spacy(
            _extract_entities_spacy(doc, base),
            _extract_conditions_spacy(doc, noun_tags), base, hash_seed)
C14Parsed == runs /= <<>> /\ (restarted => Len(runs) = 2)

\* C14: under an ev_charging category the predicate has exactly one
\* conjunct on Fuel_Type_, the default Fuel_Type_ = 'ELEC' being appended
\* exactly when no entity-derived conjunct is on Fuel_Type_; under any other
\* category no default is appended.
C14OneFuelTypeConjunct ==
    C14Parsed =>
        LET fuel(cs) == {i \in DOMAIN cs : cs[i].field = "Fuel_Type_"}
            extra == Len(C14Built) - Len(C14Entity) - Len(C14Numeric)
            where_clause == runs[Len(runs)].where_clause
        IN  IF _map_to_base_dataset(dataset) = "ev_charging"
            THEN /\ extra = (IF fuel(C14Entity) = {} THEN 1 ELSE 0)
                 /\ Cardinality(fuel(C14Built)) = 1
                 /\ extra = 1 =>
                        C14Built[Len(C14Entity) + 1]
                            = Equals("Fuel_Type_", "ELEC")
                 /\ Cardinality(fuel(Distinct(C14Built, <<>>))) = 1
                 /\ where_clause = WhereClause(Distinct(C14Built, <<>>))
            ELSE /\ extra = 0
                 /\ C14Built = C14Entity \o C14Numeric
C14Witness ==
    /\ C14Parsed
    /\ _map_to_base_dataset(dataset) = "ev_charging"
    /\ \E i \in DOMAIN C14Entity : C14Entity[i].field = "Fuel_Type_"
    /\ Len(C14Entity) > 1
    /\ runs[Len(runs)].where_clause = WhereClause(C14Built)

\* C15: the where_clause is the conjuncts of the builder, entity-derived
\* first, then the default, then the numeric ones, each conjunct string kept
\* where it first occurs, joined by " AND "; it is "1=1" exactly when the
\* builder returned no conjunct.
C15JoinedInOrder ==
    C14Parsed =>
        LET texts == [i \in DOMAIN C14Built |-> C14Built[i].text]
            first == {i \in DOMAIN texts :
                         \A j \in 1..(i - 1) : texts[j] /= texts[i]}
            order == Sorted({<<i>> : i \in first})
            kept == [k \in DOMAIN order |-> texts[order[k][1]]]
            defaults == SubSeq(C14Built, Len(C14Entity) + 1,
                               Len(C14Built) - Len(C14Numeric))
            where_clause == runs[Len(runs)].where_clause
        IN  /\ C14Built = C14Entity \o defaults \o C14Numeric
            /\ \A i \in DOMAIN defaults :
                  defaults[i] = Equals("Fuel_Type_", "ELEC")
            /\ where_clause =
                  IF kept = <<>> THEN "1=1" ELSE Join(kept, " AND ")
            /\ where_clause = "1=1" <=> C14Built = <<>>
C15Witness ==
    /\ C14Parsed
    /\ \E i, j \in DOMAIN C14Built : i < j /\ C14Built[i].text = C14Built[j].text
    /\ Len(C14Built) > 2
    /\ runs[Len(runs)].where_clause /= "1=1"

\* C17: when the text of parse_query holds one distance phrase of the two
\* templates (leading word, number, unit; number, unit, trailing word), the
\* number written in digits or as a number word, the distance returned is
\* that number of kilometres, times 1.60934 when the unit is a mile unit.
C17Number(w) ==
    CASE w = "3" -> 3
      [] w = "6" -> 6
      [] w = "three" -> 3
C17PhraseAt(i) ==
    /\ i + 1 <= Len(doc)
    /\ doc[i] \in {"3", "6", "three"}
    /\ doc[i + 1] \in {"miles", "mile", "mi", "km", "kilometers", "kilometer"}
    /\ \/ i > 1 /\ doc[i - 1] \in {"within", "in", "inside"}
       \/ /\ i + 2 <= Len(doc)
          /\ doc[i + 2] \in {"away", "radius", "around", "from"}
C17Expected(i) ==
    << C17Number(doc[i]),
       IF doc[i + 1] \in {"miles", "mile", "mi"} THEN 160934 ELSE 100000 >>
C17DistanceInKilometres ==
    runs /= <<>> =>
        \A i \in DOMAIN doc :
            (C17PhraseAt(i) /\ \A j \in DOMAIN doc : C17PhraseAt(j) => j = i)
                => runs[Len(runs)].distance_km = C17Expected(i)

\* C18: when the text of a proximity query holds more than one distance
\* phrase (a number and a unit), the radius of the tool call is the distance
\* of the first of them in the text.
C18PhraseAt(q, i) ==
    /\ i + 1 <= Len(q)
    /\ q[i] \in {"0", "3", "5"}
    /\ q[i + 1] \in {"km", "miles"}
C18Expected(q, i) ==
    LET n == CASE q[i] = "0" -> 0 [] q[i] = "3" -> 3 [] q[i] = "5" -> 5
    IN  IF n = 0 \/ q[i + 1] = "km" THEN <<n, 100000>> ELSE <<n, 160934>>
C18FirstPhraseWins ==
    (route_pc = "analyzed" /\ tool_call.tool_name = "find_infrastructure_near"
         /\ tool_call.confidence = 90) =>
        LET q == Normalize(query_text)
            at == {i \in DOMAIN q : C18PhraseAt(q, i)}
        IN  Cardinality(at) > 1 =>
                tool_call.args.radius_km = C18Expected(q, MinOf(at))

\* C19: 'find EV charging near Sacramento within 3 miles' becomes a
\* proximity tool call at the place sacramento with the radius 3 x 1.60934
\* km and the infrastructure type ev_charging, and every proximity query
\* whose infrastructure phrase names EV charging gets the type ev_charging
\* and not the default type.
C19Query ==
    <<"find", "EV", "charging", "near", "Sacramento", "within", "3", "miles">>
C19EvChargingCategory ==
    route_pc = "analyzed" =>
        LET q == Normalize(query_text)
        IN  /\ query_text = C19Query =>
                 /\ tool_call.tool_name = "find_infrastructure_near"
                 /\ tool_call.args.place = "sacramento"
                 /\ tool_call.args.radius_km = <<3, 160934>>
                 /\ tool_call.args.infrastructure_type = "ev_charging"
            /\ (SpatialMatch(q).hit
                    /\ TextHas2(SpatialMatch(q).groups[1], "ev", "charging")) =>
                 /\ tool_call.args.infrastructure_type = "ev_charging"
                 /\ tool_call.args.infrastructure_type /= "buildings_real"

\* C20: every numeric condition that parse_query extracts has as its field
\* hints all the tokens tagged as nouns within three tokens of the matched
\* span, in the order of the text; 'show buildings with more than 6 levels',
\* levels tagged as a noun, gives a condition with the operator '>', the
\* value 6 and the hint levels.
C20Query == <<"show", "buildings", "with", "more", "than", "6", "levels">>
C20NounsNear(s, e) ==
    LET near == {i \in noun_tags : i >= s - 3 /\ i <= e + 3}
        order == Sorted({<<i>> : i \in near})
    IN  [k \in DOMAIN order |-> doc[order[k][1]]]
C20HintsAreNearbyNouns ==
    runs /= <<>> =>
        LET conds == _extract_conditions_spacy(doc, noun_tags)
        IN  /\ \A k \in DOMAIN conds :
                  \E s, e \in DOMAIN doc :
                      /\ s <= e
                      /\ conds[k].span_text = Join(SubSeq(doc, s, e), " ")
                      /\ conds[k].field_hints = C20NounsNear(s, e)
            /\ (doc = C20Query /\ 7 \in noun_tags) =>
                  \E k \in DOMAIN conds :
                      /\ conds[k].operator = ">"
                      /\ conds[k].value = "6.0"
                      /\ "levels" \in Range(conds[k].field_hints)

\* C21: every numeric condition that parse_query extracts carries the
\* operator of the cue its phrase starts with: '>' for more, greater, above,
\* over; '<' for less, fewer, under, below; '>=' for at (least), minimum,
\* min; '=' for exactly, equal; and '>=' for a phrase 'N or more' that starts
\* with its number.
C21CueOperator(w) ==
    IF w \in {"more", "greater", "above", "over"} THEN ">"
    ELSE IF w \in {"less", "fewer", "under", "below"} THEN "<"
    ELSE IF w \in {"exactly", "equal"} THEN "="
    ELSE ">="
C21Phrase(s, e) ==
    /\ s <= e
    /\ \/ doc[s] \in {"more", "greater", "above", "over", "less", "fewer",
                       "under", "below", "at", "minimum", "min", "exactly",
                       "equal"}
       \/ doc[s] \in {"3", "6"} /\ doc[e] = "more"
C21OperatorOfCue ==
    runs /= <<>> =>
        LET conds == _extract_conditions_spacy(doc, noun_tags)
        IN  \A k \in DOMAIN conds :
                \A s, e \in DOMAIN doc :
                    (C21Phrase(s, e)
                         /\ conds[k].span_text = Join(SubSeq(doc, s, e), " "))
                        => conds[k].operator = C21CueOperator(doc[s])

\* C22: a query of the listing family (no proximity and no attribute
\* template matches it) that has a location phrase, some words after a
\* standalone 'in' or 'at', becomes the proximity call on that location with
\* the default radius of the listing handler; one without a location phrase
\* becomes the attribute call with the predicate '1=1' and max_features 100.
C22LocationAt(q, i) == i > 1 /\ i < Len(q) /\ q[i] \in {"in", "at"}
C22ListingDispatch ==
    route_pc = "analyzed" =>
        LET q == Normalize(query_text)
            listing == /\ ~SpatialMatch(q).hit /\ ~AttributeMatch(q).hit
                       /\ SimpleMatch(q).hit
            places == {i \in DOMAIN q : C22LocationAt(q, i)}
        IN  listing =>
                IF places /= {}
                THEN /\ tool_call.tool_name = "find_infrastructure_near"
                     /\ tool_call.args.place
                            = Words(SubSeq(q, MinOf(places) + 1, Len(q)))
                     /\ tool_call.args.radius_km = <<5, 100000>>
                ELSE /\ tool_call.tool_name
                            = "find_infrastructure_by_attributes"
                     /\ tool_call.args.where_conditions = "1=1"
                     /\ tool_call.args.max_features = 100

\* C25: the infrastructure_type of every tool call is the dataset of the
\* longest key of infrastructure_mappings that occurs in the infrastructure
\* phrase of the query, all the words between the leading verb (and 'all')
\* and the first word that opens a location or a condition, and it is
\* buildings_real only when no key occurs in the phrase: 'show car park'
\* gives parking_real and 'show green space' gives parks_real.
C25Phrase(q) ==
    LET first == IF q[1] \in {"find", "show", "list", "display"}
                 THEN IF Len(q) > 1 /\ q[2] = "all" THEN 3 ELSE 2
                 ELSE 1
        stops == {i \in first..Len(q) :
                     q[i] \in {"near", "around", "close", "within", "where",
                               "with", "having", "in", "at", "on",
                               "installed", "built"}}
        last == IF stops = {} THEN Len(q) ELSE MinOf(stops) - 1
    IN  SubSeq(q, first, last)
C25LongestKeywordOfPhrase ==
    (route_pc = "analyzed" /\ tool_call /= NoToolCall) =>
        LET q == Normalize(query_text)
            M == infrastructure_mappings
            X == C25Phrase(q)
            found == {i \in DOMAIN M : TextHas(X, M[i][1])}
            longest == {i \in found :
                           \A k \in found :
                               Len(Words(M[k][1])) <= Len(Words(M[i][1]))}
        IN  X /= <<>> =>
                IF found = {}
                THEN tool_call.args.infrastructure_type = "buildings_real"
                ELSE \E i \in longest :
                         tool_call.args.infrastructure_type = M[i][2]

\* C26: for a proximity query 'X near|around|close to Y' or 'X within D of
\* Y' the place of the tool call is the whole location phrase Y, every word
\* of it, and the radius is the distance D of the query in kilometres, or 2
\* km when the query has no distance phrase.
C26PlaceStart(q) ==
    LET prox == {i \in DOMAIN q :
                    /\ i > 1
                    /\ \/ q[i] \in {"near", "around"}
                       \/ q[i] = "to" /\ q[i - 1] = "close"}
        ofs == {i \in DOMAIN q :
                   i > 1 /\ q[i] = "of" /\ \E j \in 2..(i - 1) : q[j] = "within"}
    IN  IF prox /= {} THEN MinOf(prox) + 1
        ELSE IF ofs /= {} THEN MinOf(ofs) + 1
        ELSE 0
C26Place(q) ==
    LET first == C26PlaceStart(q)
        stops == {i \in first..Len(q) : q[i] = "within"}
        last == IF stops = {} THEN Len(q) ELSE MinOf(stops) - 1
    IN  Words(SubSeq(q, first, last))
C26WholeLocationPhrase ==
    (route_pc = "analyzed" /\ tool_call.tool_name = "find_infrastructure_near"
         /\ tool_call.confidence = 90) =>
        LET q == Normalize(query_text)
            at == {i \in DOMAIN q : C18PhraseAt(q, i)}
        IN  (C26PlaceStart(q) > 0 /\ C26Place(q) /= "") =>
                /\ tool_call.args.place = C26Place(q)
                /\ at = {} => tool_call.args.radius_km = <<2, 100000>>
                /\ Cardinality(at) = 1 =>
                       tool_call.args.radius_km = C18Expected(q, MinOf(at))

\* C28: the filters of a tool call hold a City conjunct only when the query
\* names a city after the standalone word 'in': 'parks in zip 91941' gives
\* exactly ZIP='91941', 'parks installed in 2020' exactly InstallYear=2020,
\* 'installed after' and 'installed before' give InstallYear> and
\* InstallYear<, and a proximity query without the word 'in' gets the ZIP,
\* year and street filters only, none from the word 'within'.
C28OtherFilters(q) ==
    LET conditions == ZipFilter(q) \o DateFilter(q) \o StreetFilter(q)
    IN  IF conditions = <<>> THEN "None" ELSE Join(conditions, " AND ")
C28Where(text, where) ==
    (query_text = text
         /\ tool_call.tool_name = "find_infrastructure_by_attributes")
        => tool_call.args.where_conditions = where
C28CityOnlyAfterIn ==
    route_pc = "analyzed" =>
        LET q == Normalize(query_text)
        IN  /\ C28Where(<<"parks", "in", "zip", "91941">>, "ZIP='91941'")
            /\ C28Where(<<"parks", "installed", "in", "2020">>,
                        "InstallYear=2020")
            /\ C28Where(<<"parks", "installed", "after", "2020">>,
                        "InstallYear>2020")
            /\ C28Where(<<"parks", "installed", "before", "2020">>,
                        "InstallYear<2020")
            /\ (tool_call.tool_name = "find_infrastructure_near"
                    /\ tool_call.confidence = 90
                    /\ \A i \in DOMAIN q : q[i] /= "in") =>
                  tool_call.args.additional_filters = C28OtherFilters(q)

(***************************************************************************)
(* SchemaSpec: one call of update_dynamic_mappings on the parser that its  *)
(* constructor built, and one call of parse_query on the same parser by    *)
(* another thread.  The interpreter may switch threads between any two of  *)
(* the steps.                                                              *)
(***************************************************************************)
MaxDatasets == 1
DatasetIds == {"fleet", "ev_charging_0", "tree_wells"}
DatasetConfigs ==
    { None,
      [name |-> <<"gas", "valves">>, fields |-> <<"OBJECTID", "VALVE_STATUS">>],
      [name |-> <<"ev", "charging">>,
       fields |-> <<"Network_Name", "Access_Group">>],
      [name |-> <<"water">>, fields |-> <<>>] }
UpdateInputs ==
    { ds \in SeqsUpTo(DatasetIds \X DatasetConfigs, MaxDatasets) :
        \A i, j \in DOMAIN ds : i /= j => ds[i][1] /= ds[j][1] }
SchemaDocs == { <<"active">>, <<"tesla">> }

\* Line 756-760: update_dynamic_mappings is called.
UpdateStart ==
    /\ update_pc = "idle"
    /\ \E ds \in UpdateInputs : datasets' = ds
    /\ update_idx' = 0
    /\ update_pc' = IF datasets' = <<>> THEN "clear" ELSE "entities"
    /\ UNCHANGED <<dynamic_dataset_entities, dynamic_field_mappings,
                   phrase_matcher>>

\* Line 225-243: parse_query is called; the texts name no hint noun.
ReadStart ==
    /\ parse_pc = "idle"
    /\ \E tokens \in SchemaDocs, name \in DatasetIds, seed \in HashSeeds :
          /\ doc' = tokens
          /\ dataset' = name
          /\ hash_seed' = seed
    /\ noun_tags' = {}
    /\ parse_pc' = "entities"
    /\ UNCHANGED <<restarted, runs, parse_entities, seen_matcher,
                   seen_mappings>>

\* Line 245: _extract_entities_spacy calls the matcher that is installed.
ReadEntities ==
    /\ parse_pc = "entities"
    /\ parse_entities' =
           _extract_entities_spacy(doc, _map_to_base_dataset(dataset))
    /\ seen_matcher' = phrase_matcher
    /\ parse_pc' = "where"
    /\ UNCHANGED <<doc, dataset, noun_tags, hash_seed, restarted, runs,
                   seen_mappings>>

\* Line 246-268: the conditions are built with the field mappings as they
\* are now, and parse_query returns.
ReadConditions ==
    Distinct(_build_where_conditions_spacy(
                 parse_entities, _extract_conditions_spacy(doc, noun_tags),
                 _map_to_base_dataset(dataset), hash_seed),
             <<>>)
ReadWhere ==
    /\ parse_pc = "where"
    /\ runs' = Append(runs,
                      QueryResult(WhereClause(ReadConditions),
                                  "None", "None",
                                  _extract_distance_spacy(doc)))
    /\ seen_mappings' = dynamic_field_mappings
    /\ parse_pc' = "done"
    /\ UNCHANGED <<doc, dataset, noun_tags, hash_seed, restarted,
                   parse_entities, seen_matcher>>

SchemaInit == GeoIdle /\ RouteIdle /\ ParseIdle /\ SchemaIdle /\ ConvertIdle /\ FetchIdle
    /\ ChatIdle /\ NormIdle
SchemaNext ==
    \/ UpdateStart
         /\ UNCHANGED <<geoVars, routeVars, parseVars, convertVars, fetchVars, chatVars, normVars, parse_entities,
                        seen_matcher, seen_mappings>>
    \/ UpdateEntities
         /\ UNCHANGED <<geoVars, routeVars, parseVars, convertVars, fetchVars, chatVars, normVars, parse_entities,
                        seen_matcher, seen_mappings>>
    \/ UpdateFields
         /\ UNCHANGED <<geoVars, routeVars, parseVars, convertVars, fetchVars, chatVars, normVars, parse_entities,
                        seen_matcher, seen_mappings>>
    \/ RebuildClear
         /\ UNCHANGED <<geoVars, routeVars, parseVars, convertVars, fetchVars, chatVars, normVars, parse_entities,
                        seen_matcher, seen_mappings>>
    \/ RebuildAdd
         /\ UNCHANGED <<geoVars, routeVars, parseVars, convertVars, fetchVars, chatVars, normVars, parse_entities,
                        seen_matcher, seen_mappings>>
    \/ ReadStart
         /\ UNCHANGED <<geoVars, routeVars, convertVars, fetchVars, chatVars, normVars, dynamic_dataset_entities,
                        dynamic_field_mappings, phrase_matcher, update_pc,
                        datasets, update_idx>>
    \/ ReadEntities
         /\ UNCHANGED <<geoVars, routeVars, convertVars, fetchVars, chatVars, normVars, dynamic_dataset_entities,
                        dynamic_field_mappings, phrase_matcher, update_pc,
                        datasets, update_idx>>
    \/ ReadWhere
         /\ UNCHANGED <<geoVars, routeVars, convertVars, fetchVars, chatVars, normVars, dynamic_dataset_entities,
                        dynamic_field_mappings, phrase_matcher, update_pc,
                        datasets, update_idx>>
SchemaSpec == SchemaInit /\ [][SchemaNext]_vars

\* The tables an update leaves when nothing runs beside it.
RECURSIVE RegisteredEntities(_, _)
RegisteredEntities(ds, dict) ==
    IF ds = <<>> THEN dict
    ELSE RegisteredEntities(
             Tail(ds),
             IF Head(ds)[2] = None THEN dict
             ELSE DictSet(dict, Head(ds)[1],
                          _extract_entities_from_config(Head(ds)[2])))
RECURSIVE RegisteredMappings(_, _)
RegisteredMappings(ds, dict) ==
    IF ds = <<>> THEN dict
    ELSE RegisteredMappings(
             Tail(ds),
             IF Head(ds)[2] = None THEN dict
             ELSE DictSet(dict, Head(ds)[1],
                          _extract_field_mappings_from_config(Head(ds)[2])))

\* C11: a parse_query that runs beside update_dynamic_mappings has read
\* either the matcher and the field mappings of before the update or the
\* matcher and the field mappings of after it, never a matcher that is
\* empty or partly rebuilt, and never the one of one version with the other
\* of the other version.
C11ReadsOneVersion ==
    parse_pc = "done" =>
        LET before == [ matcher |-> [ static |-> Len(StaticPatterns),
                                      dynamic |-> <<>> ],
                        mappings |-> <<>> ]
            after == [ matcher |->
                           [ static |-> Len(StaticPatterns),
                             dynamic |->
                                 PatternsOf(RegisteredEntities(datasets,
                                                               <<>>)) ],
                       mappings |-> RegisteredMappings(datasets, <<>>) ]
        IN  [matcher |-> seen_matcher, mappings |-> seen_mappings]
                \in {before, after}

\* C12: once update_dynamic_mappings has registered a dataset id that is no
\* static category, with a field mapping for an entity type, a parse_query
\* for that dataset that reads the updated tables and whose text holds a
\* phrase of the dataset's vocabulary for that type returns a predicate on
\* the field registered for the dataset.
C12RegisteredFieldUsed ==
    ( /\ update_pc = "done"
      /\ parse_pc = "done"
      /\ seen_matcher = phrase_matcher
      /\ seen_mappings = dynamic_field_mappings
      /\ dataset \notin Range(DatasetOrder) ) =>
        LET vocabulary == DictGet(dynamic_dataset_entities, dataset, <<>>)
            mappings == DictGet(dynamic_field_mappings, dataset, <<>>)
        IN  \A i \in DOMAIN vocabulary, j \in DOMAIN mappings :
                ( /\ vocabulary[i][1] = mappings[j].entity_type
                  /\ \E a, b \in DOMAIN doc :
                        /\ a <= b
                        /\ SubSeq(doc, a, b) \in Range(vocabulary[i][2]) ) =>
                    /\ runs[1].where_clause = WhereClause(ReadConditions)
                    /\ \E k \in DOMAIN ReadConditions :
                          ReadConditions[k].field = mappings[j].field

(***************************************************************************)
(* ConvertSpec: one call of to_geojson on a list of ArcGIS features.       *)
(***************************************************************************)
MaxConvert == 2
ConvertPool ==
    FeaturePool \cup
    { [ geometry |-> [paths |-> << << <<1, 2>>, <<3, 4>> >>,
                                  << <<5, 6>>, <<7, 8>> >> >>],
        attributes |-> [OBJECTID |-> 4] ],
      [ geometry |-> [paths |-> <<>>], attributes |-> [OBJECTID |-> 5] ],
      [ geometry |-> [rings |-> << << <<0, 0>>, <<0, 9>>, <<9, 0>>, <<0, 0>> >>,
                                  << <<1, 1>>, <<1, 2>>, <<2, 1>>, <<1, 1>> >> >>],
        attributes |-> [OBJECTID |-> 6] ],
      [ geometry |-> [points |-> << <<1, 2>>, <<3, 4>> >>],
        attributes |-> [OBJECTID |-> 7] ],
      [ attributes |-> [OBJECTID |-> 8] ],
      [ geometry |-> [x |-> 30, y |-> 40] ] }

\* Line 180: to_geojson is called.
ConvertCall ==
    /\ convert_pc = "idle"
    /\ \E features \in SeqsUpTo(ConvertPool, MaxConvert) :
          convert_features' = features
    /\ convert_pc' = "called"
    /\ UNCHANGED convert_result

\* Line 217-220: to_geojson returns.
ConvertReturn ==
    /\ convert_pc = "called"
    /\ convert_result' = to_geojson(convert_features)
    /\ convert_pc' = "done"
    /\ UNCHANGED convert_features

ConvertInit ==
    /\ GeoIdle /\ RouteIdle /\ ParseIdle /\ SchemaIdle /\ ConvertIdle
    /\ FetchIdle /\ ChatIdle /\ NormIdle
ConvertNext ==
    \/ ConvertCall
         /\ UNCHANGED <<geoVars, routeVars, parseVars, schemaVars, fetchVars, chatVars, normVars>>
    \/ ConvertReturn
         /\ UNCHANGED <<geoVars, routeVars, parseVars, schemaVars, fetchVars, chatVars, normVars>>
ConvertSpec == ConvertInit /\ [][ConvertNext]_vars

\* C16: to_geojson returns a FeatureCollection with one feature per input
\* feature, in the order of the input, each with the attributes of its input
\* as properties and the geometry: Point [x, y] for x and y; LineString of
\* the first path, or of no coordinates when there is no path, for paths;
\* Polygon of all rings for rings; the input geometry for any other shape.
C16FeaturePerFeature ==
    convert_pc = "done" =>
        /\ convert_result.type = "FeatureCollection"
        /\ Len(convert_result.features) = Len(convert_features)
        /\ \A i \in DOMAIN convert_features :
              LET src == convert_features[i]
                  out == convert_result.features[i]
                  g == IF "geometry" \in DOMAIN src THEN src.geometry
                       ELSE [none |-> TRUE]
              IN  /\ out.type = "Feature"
                  /\ out.properties =
                         IF "attributes" \in DOMAIN src THEN src.attributes
                         ELSE [none |-> TRUE]
                  /\ {"x", "y"} \subseteq DOMAIN g =>
                         out.geometry = [ type |-> "Point",
                                          coordinates |-> <<g.x, g.y>> ]
                  /\ "paths" \in DOMAIN g =>
                         out.geometry =
                             [ type |-> "LineString",
                               coordinates |-> IF Len(g.paths) = 0 THEN <<>>
                                               ELSE Head(g.paths) ]
                  /\ "rings" \in DOMAIN g =>
                         out.geometry = [ type |-> "Polygon",
                                          coordinates |-> g.rings ]
                  /\ DOMAIN g \cap {"x", "y", "paths", "rings"} = {} =>
                         out.geometry = g
C16Witness ==
    /\ convert_pc = "done"
    /\ Len(convert_features) = 2
    /\ \A i \in 1..2 : "geometry" \in DOMAIN convert_features[i]
    /\ "paths" \in DOMAIN convert_features[1].geometry
    /\ Len(convert_features[1].geometry.paths) = 2
    /\ "rings" \in DOMAIN convert_features[2].geometry
    /\ convert_result.features[1].geometry.coordinates = << <<1, 2>>, <<3, 4>> >>
    /\ convert_result.features[2].geometry.type = "Polygon"


(***************************************************************************)
(* FetchSpec: one call of a function that asks the feature provider:       *)
(* query_within_distance (gis_tools.py line 113-178), called with the URL  *)
(* of a service; find_infrastructure_by_attributes (line 319-399); and     *)
(* make_arcgis_request (main.py line 531-595).                             *)
(***************************************************************************)
MaxFetchRetries == 3
FetchSites ==
    {"query_within_distance", "find_infrastructure_by_attributes",
     "make_arcgis_request"}
\* The error codes a structured error of the provider can carry.
ErrorCodes == {400, 498, 499, 500}
ArcgisResponses ==
    [kind : {"transport", "http_error"}, features : {<<>>}]
        \cup [kind : {"error_body"}, code : ErrorCodes, features : {<<>>}]
        \cup [kind : {"ok"}, features : SeqsUpTo(FeaturePool, MaxFeatures)]
\* The arguments of the call: max_retries for make_arcgis_request, the
\* infrastructure type for find_infrastructure_by_attributes.
FetchInputs(site) ==
    IF site = "make_arcgis_request"
    THEN [max_retries : 1..MaxFetchRetries]
    ELSE IF site = "find_infrastructure_by_attributes"
    THEN [ infrastructure_type : {"parks_real", "roads_real", "ev_charging"},
           where_conditions : {"1=1"} ]
    ELSE {None}

\* main.py line 549-570: the HTTPException of a structured error.
ErrorStatus(code) ==
    IF code \in {499, 498} THEN 401 ELSE IF code = 400 THEN 400 ELSE 500

\* The function is entered; find_infrastructure_by_attributes ends here
\* when line 327-334 return or raise before any request.
FetchCall ==
    /\ fetch_pc = "idle"
    /\ \E site \in FetchSites :
          \E args \in FetchInputs(site) :
              /\ fetch_site' = site
              /\ fetch_args' = args
              /\ IF site = "find_infrastructure_by_attributes"
                    /\ ~AttributesAsksProvider(args)
                 THEN /\ fetch_result'
                            = find_infrastructure_by_attributes(args, NotAsked)
                      /\ fetch_pc' = "done"
                 ELSE /\ fetch_result' = None
                      /\ fetch_pc' = "request"
    /\ UNCHANGED <<fetch_outcomes, fetch_sleeps>>

\* One requests.get and what the function does with its outcome.
FetchRequest ==
    /\ fetch_pc = "request"
    /\ \E response \in ArcgisResponses :
          LET attempt_no == Len(fetch_outcomes)
              failed == response.kind \in {"transport", "http_error"}
          IN  /\ fetch_outcomes' = Append(fetch_outcomes, response.kind)
              /\ CASE fetch_site = "query_within_distance" ->
                       /\ fetch_result'
                             = Return(query_within_distance(response))
                       /\ fetch_pc' = "done"
                       /\ UNCHANGED fetch_sleeps
                   [] fetch_site = "find_infrastructure_by_attributes" ->
                       /\ fetch_result'
                             = find_infrastructure_by_attributes(fetch_args,
                                                                 response)
                       /\ fetch_pc' = "done"
                       /\ UNCHANGED fetch_sleeps
                   [] fetch_site = "make_arcgis_request" ->
                       IF failed /\ attempt_no < fetch_args.max_retries - 1
                       THEN /\ fetch_sleeps'
                                  = Append(fetch_sleeps, 2 ^ attempt_no)
                            /\ UNCHANGED <<fetch_pc, fetch_result>>
                       ELSE /\ fetch_result' =
                                  IF failed
                                  THEN Raise("HTTPException", "500")
                                  ELSE IF response.kind = "error_body"
                                  THEN Raise("HTTPException",
                                             ToString(ErrorStatus(response.code)))
                                  ELSE Return(response.features)
                            /\ fetch_pc' = "done"
                            /\ UNCHANGED fetch_sleeps
    /\ UNCHANGED <<fetch_site, fetch_args>>

FetchInit ==
    /\ GeoIdle /\ RouteIdle /\ ParseIdle /\ SchemaIdle /\ ConvertIdle
    /\ FetchIdle /\ ChatIdle /\ NormIdle
FetchNext ==
    \/ FetchCall
         /\ UNCHANGED <<geoVars, routeVars, parseVars, schemaVars, convertVars, chatVars, normVars>>
    \/ FetchRequest
         /\ UNCHANGED <<geoVars, routeVars, parseVars, schemaVars, convertVars, chatVars, normVars>>
FetchSpec == FetchInit /\ [][FetchNext]_vars

\* C23: when the request of query_within_distance fails (transport error,
\* HTTP error status, structured error), the features it hands back to
\* find_infrastructure_near, from which the text and the geometry of the
\* result are made, differ from the empty list of an answer without
\* features.
C23ProviderFailureVisible ==
    (fetch_pc = "done" /\ fetch_site = "query_within_distance"
         /\ fetch_outcomes[Len(fetch_outcomes)] /= "ok") =>
        \/ fetch_result.raised
        \/ to_geojson(fetch_result.value) /= to_geojson(<<>>)

\* C24: each function that asks the feature provider makes a further attempt
\* after a transport failure while its bounded number of attempts allows one
\* (at least two attempts), sleeps between attempts for a time that grows,
\* and ends with a failure only when the last allowed attempt has failed; a
\* structured error in make_arcgis_request ends the call at once with an
\* exception.
C24Attempts ==
    IF fetch_site = "make_arcgis_request" THEN fetch_args.max_retries ELSE 2
C24RetriesTransportFailure ==
    (fetch_pc = "done" /\ fetch_outcomes /= <<>>) =>
        LET n == Len(fetch_outcomes)
        IN  /\ \A i \in 1..n :
                  (fetch_outcomes[i] = "transport" /\ i < C24Attempts) => i < n
            /\ Len(fetch_sleeps) = n - 1
            /\ \A i \in 1..(n - 2) : fetch_sleeps[i] < fetch_sleeps[i + 1]
            /\ n <= MaxFetchRetries
            /\ (fetch_site = "make_arcgis_request"
                    /\ fetch_outcomes[n] = "error_body") =>
                  /\ fetch_result.raised
                  /\ \A i \in 1..(n - 1) : fetch_outcomes[i] /= "error_body"

(***************************************************************************)
(* ChatSpec: the requests of clients to POST /api/chat.  SessionSpec: the   *)
(* requests of clients to POST /api/chatbot/query and to DELETE             *)
(* /api/chatbot/clear/{session_id}.  No handler awaits, so each request is  *)
(* handled as a whole.                                                      *)
(***************************************************************************)
MaxChatExchanges == 11
MaxLlmFailures == 1
MaxFileFeatures == 1
MemoryLimit == 20
SampleSize == 50

SessionIds == {"s1", "s2"}
CurrentDatasets == {"parks_real"}

\* A spatialContext of None is false where the code tests it.
SpatialContexts == {"None", "features"}
Truthy(spatialContext) == spatialContext = "features"

\* What the call of the language model of line 1574-1698 comes to: a text,
\* a completion without a text, or no client or an exception.
LlmOutcomes == {"text", "null", "unavailable"}
QueryLlmOutcomes == {"text", "null"}

\* The messages of the requests: one for each dataset and a greeting.
ChatMessages ==
    { <<"show", "all", "bus", "stops", "in", "Abu", "Dhabi">>,
      <<"show", "mosques">>, <<"show", "parks">>, <<"show", "parking">>,
      <<"show", "roads">>, <<"show", "buildings">>, <<"hello">> }
QueryMessages == { <<"show", "all", "bus", "stops", "in", "Abu", "Dhabi">> }

\* Python's  any(word in text for word in words).
AnyIn(words, text) == \E w \in words : TextHas1(text, w)

\* Python's  key in text  for a key of two words or more.
TextHasWords(text, key) ==
    \E i \in DOMAIN text :
        /\ i + Len(key) - 1 <= Len(text)
        /\ EndsWith(text[i], key[1])
        /\ \A j \in 2..(Len(key) - 1) : text[i + j - 1] = key[j]
        /\ StartsWith(text[i + Len(key) - 1], key[Len(key)])

\* main.py line 1999-2006.
DatasetFiles ==
    { "bus_stops_query.geojson", "mosques_query.geojson",
      "Parks_In_Bbox.geojson", "Parking_Areas.geojson",
      "BuildingStructures.geojson", "Roads_Query.geojson" }
file_mapping ==
    [filename \in DatasetFiles |->
        CASE filename = "bus_stops_query.geojson" -> "bus_stops_real"
          [] filename = "mosques_query.geojson" -> "mosques_real"
          [] filename = "Parks_In_Bbox.geojson" -> "parks_real"
          [] filename = "Parking_Areas.geojson" -> "parking_real"
          [] filename = "BuildingStructures.geojson" -> "buildings_real"
          [] filename = "Roads_Query.geojson" -> "roads_real"]

\* The files of public/data that exist when a request arrives, each with
\* the same number of features.
DataDirs ==
    {{}} \cup {{filename} : filename \in DatasetFiles} \cup {DatasetFiles}

\* main.py line 1991-2022: the dataset map of the files that exist.
load_abu_dhabi_datasets(files, n) ==
    [dataset_key \in {file_mapping[filename] : filename \in files} |->
        [features |-> n]]

\* main.py line 2024-2043.
determine_query_intent(message) ==
    LET message_lower == Normalize(message)
    IN  IF AnyIn({"bus", "stop", "transport", "transit"}, message_lower)
        THEN <<"spatial", "bus_stops">>
        ELSE IF AnyIn({"mosque", "prayer", "islamic", "worship"},
                      message_lower)
        THEN <<"spatial", "mosques">>
        ELSE IF AnyIn({"park", "garden", "green", "recreation"},
                      message_lower)
        THEN <<"spatial", "parks">>
        ELSE IF AnyIn({"parking", "lot", "garage"}, message_lower)
        THEN <<"spatial", "parking">>
        ELSE IF AnyIn({"building", "structure", "level", "floor"},
                      message_lower)
        THEN <<"spatial", "buildings_real">>
        ELSE IF AnyIn({"road", "street", "highway"}, message_lower)
        THEN <<"spatial", "roads">>
        ELSE <<"general", "buildings_real">>

\* main.py line 1483-1498.
analyze_query_type(message) ==
    LET lower_message == Normalize(message)
    IN  IF AnyIn({"analyze", "analysis", "compare", "comparison"},
                 lower_message)
        THEN "analysis"
        ELSE IF AnyIn({"show", "find", "display", "list"}, lower_message)
        THEN "spatial"
        ELSE IF AnyIn({"near", "within", "distance", "close"}, lower_message)
        THEN "proximity"
        ELSE IF AnyIn({"what", "how", "why", "explain"}, lower_message)
        THEN "exploratory"
        ELSE IF AnyIn({"hello", "hi", "hey", "help"}, lower_message)
        THEN "greeting"
        ELSE "general"

\* main.py line 1740-1770; the texts are cut to their first sentence.
handle_followup_query(message) ==
    IF AnyIn({"these", "those", "them"}, Normalize(message))
    THEN [message |-> "I'll analyze the data from your previous query.",
          type |-> "query"]
    ELSE [message |-> "I'll help you with that follow-up question.",
          type |-> "query"]

\* main.py line 1566-1738: the 'message' and the 'type' of the response;
\* messages is context.get("messages", []), llm is what the call of the
\* language model comes to.  The texts are cut to their first sentence; a
\* completion without a text gives the message None.
generate_chatbot_response(message, query_type, messages, spatialContext, llm) ==
    LET lower_message == Normalize(message)
    IN  IF Truthy(spatialContext) /\ llm = "text"
        THEN [message |-> "llm_message", type |-> "query"]
        ELSE IF Truthy(spatialContext) /\ llm = "null"
        THEN [message |-> "None", type |-> "query"]
        ELSE IF query_type = "greeting"
        THEN [message |-> "Hello! I'm the IST GenAI Assistant.",
              type |-> "suggestion"]
        ELSE IF \/ TextHas1(lower_message, "help")
                \/ TextHasWords(lower_message,
                                <<"what", "can", "you", "do">>)
        THEN [message |-> "I can help you with:", type |-> "explanation"]
        ELSE IF \/ TextHas1(lower_message, "dataset")
                \/ TextHasWords(lower_message, <<"available", "data">>)
        THEN [message |-> "Here are the available real Abu Dhabi datasets:",
              type |-> "explanation"]
        ELSE IF query_type \in {"spatial", "proximity"}
        THEN [message |-> "I'll help you with that spatial query.",
              type |-> "query"]
        ELSE IF query_type = "analysis"
        THEN [message |-> "I'll perform that analysis for you.",
              type |-> "analysis"]
        ELSE IF Len(messages) > 2
        THEN handle_followup_query(message)
        ELSE [message |-> "I understand you're asking about '"
                            \o Join(message, " ") \o "'.",
              type |-> "suggestion"]

\* main.py line 2045-2110 for a message that does not ask for levels: the
\* first features of the dataset.
filter_features_by_query(dataset_of, query_type) ==
    [features |-> IF dataset_of.features < SampleSize
                  THEN dataset_of.features ELSE SampleSize,
     total_features |-> dataset_of.features,
     dataset_type |-> query_type]

\* main.py line 1095-1099: the body of a request as pydantic reads it.  The
\* fields message and sessionId are required; fields the model does not
\* declare are ignored.
RequiredFields == {"message", "sessionId"}
ValidRequest(body) == RequiredFields \subseteq body.fields

\* The body test_chatbot.py sends, and the one of a client with a session.
TestBody(message) ==
    [fields |-> {"message", "context", "conversation", "spatialContext"},
     message |-> message, sessionId |-> "None", currentDataset |-> "None",
     spatialContext |-> "None"]
SessionBody(message, sessionId, currentDataset, spatialContext) ==
    [fields |-> {"message", "sessionId", "currentDataset", "spatialContext"},
     message |-> message, sessionId |-> sessionId,
     currentDataset |-> currentDataset, spatialContext |-> spatialContext]

\* FastAPI answers a body that fails validation with status 422.
Unprocessable == [status |-> 422]
Ok(body) == [status |-> 200, body |-> body]

\* main.py line 1930-1989: the response of chatbot_endpoint.
chatbot_endpoint(request, files, n, llm) ==
    LET dataset_map == load_abu_dhabi_datasets(files, n)
        intent == determine_query_intent(request.message)
        query_type == intent[1]
        target_dataset == intent[2]
        response_data ==
            generate_chatbot_response(request.message, query_type, <<>>,
                                      request.spatialContext, llm)
    IN  IF target_dataset \in DOMAIN dataset_map
        THEN [message |-> response_data.message,
              type |-> response_data.type,
              context |->
                  [mapFeatures |->
                      [dataset_key \in {target_dataset} |->
                          filter_features_by_query(
                              dataset_map[target_dataset], query_type)]]]
        ELSE [message |-> response_data.message,
              type |-> response_data.type,
              context |-> None]

\* Python's  list[-n:].
LastN(s, n) == IF Len(s) <= n THEN s ELSE SubSeq(s, Len(s) - n + 1, Len(s))

\* A dict without a key, and with a key set.
DictWithout(d, k) == [x \in DOMAIN d \ {k} |-> d[x]]
DictWith(d, k, v) == [x \in DOMAIN d \cup {k} |-> IF x = k THEN v ELSE d[x]]

\* Line 1317-1319 keeping the oldest messages instead.
KeepLastMessagesMutant(messages) ==
    IF Len(messages) > MemoryLimit THEN SubSeq(messages, 1, MemoryLimit)
    ELSE messages

\* main.py line 1317-1319.
KeepLastMessages(messages) ==
    IF Len(messages) > MemoryLimit THEN LastN(messages, MemoryLimit)
    ELSE messages

\* main.py line 1327-1333: the answer of the except branch.
ErrorResponse ==
    [message |-> "I apologize, but I encountered an error processing your request. Please try again.",
     type |-> "error"]

\* main.py line 1101-1106: ChatbotResponse(**response) raises when the
\* message is not a string, and line 1327 catches it.
ChatbotResponse(response) ==
    IF response.message = "None" THEN ErrorResponse ELSE response

\* main.py line 1235-1252 and 1270-1280: the answer to a message about the
\* levels of buildings that comes without spatial context.
building_query_override == [message |-> "<div>", type |-> "query"]

\* main.py line 1301-1311: the two messages of an exchange; now is the
\* number of messages the session was given before.
Exchange(message, response, now) ==
    << [type |-> "user", content |-> Join(message, " "),
        timestamp |-> now + 1],
       [type |-> "assistant", content |-> response.message,
        timestamp |-> now + 2] >>

\* main.py line 1225-1333: conversation_memory after the request, the
\* messages the request appended, and the answer.
chatbot_query(request, memory, llm, now) ==
    LET lower_message == Normalize(request.message)
        sessionId == request.sessionId
    IN  IF ~Truthy(request.spatialContext)
        THEN [memory |-> memory,
              appended |-> <<>>,
              response |->
                  IF /\ TextHas1(lower_message, "buildings")
                     /\ TextHas1(lower_message, "levels")
                  THEN building_query_override
                  ELSE ChatbotResponse(
                           generate_chatbot_response(
                               request.message, "general", <<>>,
                               request.spatialContext, llm))]
        ELSE LET created ==
                     IF sessionId \in DOMAIN memory THEN memory
                     ELSE DictWith(memory, sessionId,
                              [messages |-> <<>>,
                               currentDataset |-> request.currentDataset,
                               lastQuery |-> "None",
                               spatialContext |-> request.spatialContext])
                 context == created[sessionId]
                 query_type == analyze_query_type(request.message)
                 response ==
                     generate_chatbot_response(
                         request.message, query_type, context.messages,
                         request.spatialContext, llm)
                 exchange == Exchange(request.message, response, now)
             IN  [memory |->
                      DictWith(created, sessionId,
                          [messages |->
                               KeepLastMessages(context.messages
                                                    \o exchange),
                           currentDataset |-> request.currentDataset,
                           lastQuery |-> Join(request.message, " "),
                           spatialContext |-> request.spatialContext]),
                  appended |-> exchange,
                  response |-> ChatbotResponse(response)]

\* main.py line 1353-1364: conversation_memory after the request.
clear_conversation(session_id, memory) ==
    IF session_id \in DOMAIN memory THEN DictWithout(memory, session_id)
    ELSE memory

\* POST /api/chat.
ChatEndpoint ==
    \E message \in ChatMessages, files \in DataDirs,
       n \in 0..MaxFileFeatures :
        \E body \in {TestBody(message)}
                      \cup {SessionBody(message, "s1", "None", sc) :
                               sc \in SpatialContexts} :
            \E llm \in IF Truthy(body.spatialContext) THEN LlmOutcomes
                       ELSE {"unavailable"} :
                /\ chat_call' = [op |-> "chat", request |-> body,
                                 files |-> files, llm |-> llm]
                /\ chat_response' =
                       IF ValidRequest(body)
                       THEN Ok(chatbot_endpoint(body, files, n, llm))
                       ELSE Unprocessable
                /\ chat_before' = conversation_memory
                /\ UNCHANGED <<conversation_memory, chat_history,
                               llm_failures>>

\* POST /api/chatbot/query.
ChatbotQuery ==
    \E message \in QueryMessages, sessionId \in SessionIds,
       currentDataset \in CurrentDatasets, sc \in SpatialContexts :
        \E llm \in IF Truthy(sc) THEN QueryLlmOutcomes
                   ELSE {"unavailable"} :
            LET request ==
                    SessionBody(message, sessionId, currentDataset, sc)
                given == IF sessionId \in DOMAIN chat_history
                         THEN chat_history[sessionId] ELSE <<>>
                after == chatbot_query(request, conversation_memory, llm,
                                       Len(given))
                failed == Truthy(sc) /\ llm /= "text"
            IN  /\ Truthy(sc) => Len(given) < 2 * MaxChatExchanges
                /\ failed => llm_failures < MaxLlmFailures
                /\ chat_call' = [op |-> "chatbot_query", request |-> request,
                                 llm |-> llm]
                /\ chat_response' = Ok(after.response)
                /\ chat_before' = conversation_memory
                /\ conversation_memory' = after.memory
                /\ chat_history' =
                       IF Truthy(sc)
                       THEN DictWith(chat_history, sessionId,
                                     given \o after.appended)
                       ELSE chat_history
                /\ llm_failures' =
                       IF failed THEN llm_failures + 1 ELSE llm_failures

\* DELETE /api/chatbot/clear/{session_id}.
ClearConversation ==
    \E session_id \in SessionIds :
        /\ chat_call' = [op |-> "clear_conversation",
                         session_id |-> session_id]
        /\ chat_response' =
               Ok([message |-> "Conversation cleared successfully"])
        /\ chat_before' = conversation_memory
        /\ conversation_memory'
               = clear_conversation(session_id, conversation_memory)
        /\ chat_history' = DictWithout(chat_history, session_id)
        /\ UNCHANGED llm_failures

ChatInit ==
    /\ GeoIdle /\ RouteIdle /\ ParseIdle /\ SchemaIdle /\ ConvertIdle
    /\ FetchIdle /\ ChatIdle /\ NormIdle
ChatNext ==
    ChatEndpoint
        /\ UNCHANGED <<geoVars, routeVars, parseVars, schemaVars,
                       convertVars, fetchVars, normVars>>
ChatSpec == ChatInit /\ [][ChatNext]_vars

SessionInit ==
    /\ GeoIdle /\ RouteIdle /\ ParseIdle /\ SchemaIdle /\ ConvertIdle
    /\ FetchIdle /\ ChatIdle /\ NormIdle
SessionNext ==
    \/ ChatbotQuery
         /\ UNCHANGED <<geoVars, routeVars, parseVars, schemaVars,
                        convertVars, fetchVars, normVars>>
    \/ ClearConversation
         /\ UNCHANGED <<geoVars, routeVars, parseVars, schemaVars,
                        convertVars, fetchVars, normVars>>
SessionSpec == SessionInit /\ [][SessionNext]_vars

\* The dataset whose name a message holds.
C27Dataset(message) ==
    CASE "stops" \in Range(message) -> "bus_stops_real"
      [] "mosques" \in Range(message) -> "mosques_real"
      [] "parks" \in Range(message) -> "parks_real"
      [] "parking" \in Range(message) -> "parking_real"
      [] "roads" \in Range(message) -> "roads_real"
      [] "buildings" \in Range(message) -> "buildings_real"
      [] OTHER -> "None"
C27FileLoaded(message, files) ==
    \E filename \in files : file_mapping[filename] = C27Dataset(message)

\* C27: a request to /api/chat with the body of test_chatbot.py (message,
\* context, conversation, spatialContext, no session id) whose message names
\* a dataset whose file is loaded is answered with status 200, a message,
\* and a context whose mapFeatures holds an entry for that dataset.
C27ChatAnswersWithMapFeatures ==
    (/\ chat_call /= None
     /\ chat_call.op = "chat"
     /\ chat_call.request = TestBody(chat_call.request.message)
     /\ C27FileLoaded(chat_call.request.message, chat_call.files)) =>
        /\ chat_response.status = 200
        /\ chat_response.body.message /= "None"
        /\ chat_response.body.context /= None
        /\ C27Dataset(chat_call.request.message)
               \in DOMAIN chat_response.body.context.mapFeatures

\* C29: after any requests to /api/chatbot/query and /api/chatbot/clear,
\* every stored session holds at most 20 messages, an even number of them,
\* user and assistant in turn, and they are the most recent messages the
\* session was given, in order; a clear request removes the session it
\* names, if stored, and leaves every other session as it was.
C29SessionsKeepRecentExchanges ==
    /\ \A sessionId \in DOMAIN conversation_memory :
          LET messages == conversation_memory[sessionId].messages
          IN  /\ Len(messages) <= 20
              /\ Len(messages) % 2 = 0
              /\ \A i \in DOMAIN messages :
                    messages[i].type
                        = IF i % 2 = 1 THEN "user" ELSE "assistant"
              /\ sessionId \in DOMAIN chat_history
              /\ messages = LastN(chat_history[sessionId], 20)
    /\ (chat_call /= None /\ chat_call.op = "clear_conversation") =>
          /\ DOMAIN conversation_memory
                = DOMAIN chat_before \ {chat_call.session_id}
          /\ \A sessionId \in DOMAIN conversation_memory :
                conversation_memory[sessionId] = chat_before[sessionId]
C29Witness ==
    /\ chat_call /= None
    /\ chat_call.op = "clear_conversation"
    /\ chat_call.session_id \in DOMAIN chat_before
    /\ \E sessionId \in DOMAIN conversation_memory :
          /\ Len(chat_history[sessionId]) > 20
          /\ Len(conversation_memory[sessionId].messages) = 20

(***************************************************************************)
(* NormalizeSpec: QueryParser._normalize_query on a query text and then on *)
(* what it returned.  Here a text is the sequence of its characters.       *)
(***************************************************************************)
MaxNormWords == 4

Whitespace == {" ", "\t"}

\* The characters of a word.
Chars(word) ==
    CASE word = "show" -> <<"s", "h", "o", "w">>
      [] word = "Show" -> <<"S", "h", "o", "w">>
      [] word = "me" -> <<"m", "e">>
      [] word = "find" -> <<"f", "i", "n", "d">>
      [] word = "list" -> <<"l", "i", "s", "t">>
      [] word = "all" -> <<"a", "l", "l">>
      [] word = "schools" -> <<"s", "c", "h", "o", "o", "l", "s">>
      [] word = "parks" -> <<"p", "a", "r", "k", "s">>
      [] word = "show me" -> <<"s", "h", "o", "w", " ", "m", "e">>
      [] word = "find all" -> <<"f", "i", "n", "d", " ", "a", "l", "l">>
      [] word = "list all" -> <<"l", "i", "s", "t", " ", "a", "l", "l">>

NormWords == {"show", "Show", "me", "find", "list", "all", "schools"}
Separators == {<<" ">>, <<" ", " ">>, <<"\t">>}

\* The words joined by a separator, between a leading and a trailing pad.
RECURSIVE JoinChars(_, _)
JoinChars(words, separator) ==
    IF words = <<>> THEN <<>>
    ELSE IF Len(words) = 1 THEN Chars(words[1])
    ELSE Chars(words[1]) \o separator \o JoinChars(Tail(words), separator)
NormQueries ==
    { pad \o JoinChars(words, separator) \o pad :
        words \in SeqsUpTo(NormWords, MaxNormWords),
        separator \in Separators, pad \in {<<>>, <<" ">>} }

\* str.lower() on one character.
LowerChar(c) == IF c = "S" THEN "s" ELSE c

\* str.strip().
RECURSIVE LStrip(_)
LStrip(s) ==
    IF s /= <<>> /\ s[1] \in Whitespace THEN LStrip(Tail(s)) ELSE s
RECURSIVE RStrip(_)
RStrip(s) ==
    IF s /= <<>> /\ s[Len(s)] \in Whitespace
    THEN RStrip(SubSeq(s, 1, Len(s) - 1)) ELSE s
Strip(s) == RStrip(LStrip(s))

\* re.sub(r'\s+', ' ', s): every run of whitespace becomes one blank.
RECURSIVE CollapseWhitespace(_)
CollapseWhitespace(s) ==
    IF s = <<>> THEN <<>>
    ELSE IF s[1] \in Whitespace
    THEN <<" ">> \o CollapseWhitespace(LStrip(s))
    ELSE <<s[1]>> \o CollapseWhitespace(Tail(s))

\* str.replace(old, new): the occurrences of old from the left, none
\* overlapping another.
RECURSIVE Replace(_, _, _)
Replace(s, old, new) ==
    IF Len(s) < Len(old) THEN s
    ELSE IF SubSeq(s, 1, Len(old)) = old
    THEN new \o Replace(SubSeq(s, Len(old) + 1, Len(s)), old, new)
    ELSE <<s[1]>> \o Replace(Tail(s), old, new)

\* parser.py line 98-102, in the order of the dict.
variations ==
    << <<"show me", "show">>, <<"find all", "find">>,
       <<"list all", "list">> >>

RECURSIVE ReplaceVariations(_, _)
ReplaceVariations(normalized, i) ==
    IF i > Len(variations) THEN normalized
    ELSE ReplaceVariations(
             Replace(normalized, Chars(variations[i][1]),
                     Chars(variations[i][2])),
             i + 1)

\* parser.py line 93-107.
_normalize_query(query) ==
    ReplaceVariations(
        CollapseWhitespace(
            Strip([i \in DOMAIN query |-> LowerChar(query[i])])),
        1)

NormalizeCall ==
    /\ norm_pc = "idle"
    /\ norm_query' \in NormQueries
    /\ norm_pc' = "called"
    /\ UNCHANGED <<norm_once, norm_twice>>

NormalizeOnce ==
    /\ norm_pc = "called"
    /\ norm_once' = _normalize_query(norm_query)
    /\ norm_pc' = "once"
    /\ UNCHANGED <<norm_query, norm_twice>>

NormalizeTwice ==
    /\ norm_pc = "once"
    /\ norm_twice' = _normalize_query(norm_once)
    /\ norm_pc' = "twice"
    /\ UNCHANGED <<norm_query, norm_once>>

NormalizeInit ==
    /\ GeoIdle /\ RouteIdle /\ ParseIdle /\ SchemaIdle /\ ConvertIdle
    /\ FetchIdle /\ ChatIdle /\ NormIdle
NormalizeNext ==
    \/ NormalizeCall
         /\ UNCHANGED <<geoVars, routeVars, parseVars, schemaVars,
                        convertVars, fetchVars, chatVars>>
    \/ NormalizeOnce
         /\ UNCHANGED <<geoVars, routeVars, parseVars, schemaVars,
                        convertVars, fetchVars, chatVars>>
    \/ NormalizeTwice
         /\ UNCHANGED <<geoVars, routeVars, parseVars, schemaVars,
                        convertVars, fetchVars, chatVars>>
NormalizeSpec == NormalizeInit /\ [][NormalizeNext]_vars

\* C30: normalizing the normalized form of a query text gives the
\* normalized form again.
C30NormalizeIdempotent ==
    norm_pc = "twice" => norm_twice = norm_once
====
